---- MODULE Spec2Model ----
(***************************************************************************)
(* A model of the revelation engine of the herodotus grid puzzle:          *)
(* RelationshipManager (game/relationships.py), GameBoard (game/board.py)  *)
(* and GameState (game/game_state.py).                                     *)
(*                                                                         *)
(* Positions are pairs <<row, col>>.  A python dict is a function whose    *)
(* DOMAIN is its key set, together with a sequence of keys that keeps the  *)
(* insertion order where the code iterates over it.  Floats that the code  *)
(* only multiplies and compares are kept as exact integers (tenths or      *)
(* hundredths).                                                            *)
(***************************************************************************)
EXTENDS Integers, Sequences, FiniteSets, TLC

VARIABLES
    has_board,             \* GameState.board is not None
    grid_size,             \* GameBoard.grid_size
    total_cells,           \* GameBoard.total_cells
    cells,                 \* GameBoard.cells: position -> Cell
    cell_order,            \* insertion order of the keys of GameBoard.cells
    solved_count,          \* GameBoard.solved_count
    starter_revealed,      \* GameBoard.starter_revealed
    relationship_manager,  \* GameBoard.relationship_manager
    game_active,           \* GameState.game_active
    gs_grid_size,          \* GameState.grid_size
    score,                 \* GameState.score
    wrong_guesses,         \* GameState.wrong_guesses
    hints_used,            \* GameState.hints_used
    difficulty_multiplier, \* GameState.difficulty_multiplier, in hundredths
    result                 \* the last call and what it returned

vars == <<has_board, grid_size, total_cells, cells, cell_order, solved_count,
          starter_revealed, relationship_manager, game_active, gs_grid_size,
          score, wrong_guesses, hints_used, difficulty_multiplier, result>>

board_vars == <<has_board, grid_size, total_cells, cells, cell_order,
                solved_count, starter_revealed, relationship_manager>>

state_vars == <<game_active, gs_grid_size, score, wrong_guesses, hints_used,
                difficulty_multiplier>>

----------------------------------------------------------------------------
(* Bounds of the model.                                                    *)

\* wrong_guesses is counted up to this.
MaxWrongGuesses == 1

\* An already solved cell is solved again at most this many times.
MaxExtraSolves == 1

----------------------------------------------------------------------------
(* Generic helpers.                                                        *)

Min(a, b) == IF a <= b THEN a ELSE b

Max(a, b) == IF a >= b THEN a ELSE b

\* The elements of a sequence, as a set: set(list).
SeqToSet(s) == {s[i] : i \in 1..Len(s)}

\* dict.get(k, default)
DictGet(d, k, default) == IF k \in DOMAIN d THEN d[k] ELSE default

\* d[k] = v on a dict (a new key is added, an old key is overwritten).
DictPut(d, k, v) == [x \in (DOMAIN d) \cup {k} |-> IF x = k THEN v ELSE d[x]]

\* s[:n]
Take(s, n) == SubSeq(s, 1, Min(n, Len(s)))

----------------------------------------------------------------------------
(* Text.  A string is a word in one of four written forms; the code only   *)
(* lowercases, strips and fuzzy-compares strings.                          *)
(*   "lower"  the word in lower case, no surrounding blanks               *)
(*   "upper"  the same word with capitals                                  *)
(*   "padded" the lower-case word with surrounding blanks                  *)
(*   "typo"   the lower-case word with one character wrong                 *)

Forms == {"lower", "upper", "padded", "typo"}

Text(w, f) == [w |-> w, f |-> f]

\* str.lower()
Lower(t) == IF t.f = "upper" THEN Text(t.w, "lower") ELSE t

\* str.strip()
Strip(t) == IF t.f = "padded" THEN Text(t.w, "lower") ELSE t

\* fuzz.ratio(a, b): 100 for equal strings, a near miss of the same word in
\* the same case scores above the threshold, anything else far below it.
Ratio(a, b) ==
    IF a = b THEN 100
    ELSE IF a.w = b.w /\ a.f # "upper" /\ b.f # "upper" THEN 90
    ELSE 20

SimilarityThreshold == 85

----------------------------------------------------------------------------
(* game/relationships.py                                                   *)

RelationTypes == {"requires", "enables", "hints_at", "complements",
                  "contrasts", "chains_to"}

\* ClueRelationship; strength is kept in tenths.
ClueRelationship(t, src, tgt, strength) ==
    [relation_type |-> t, source_positions |-> src,
     target_positions |-> tgt, strength |-> strength]

involves_position(rel, pos) ==
    pos \in SeqToSet(rel.source_positions) \/ pos \in SeqToSet(rel.target_positions)

is_source(rel, pos) == pos \in SeqToSet(rel.source_positions)

is_target(rel, pos) == pos \in SeqToSet(rel.target_positions)

\* RelationshipManager.__init__
NewManager == [exists |-> TRUE, relationships |-> <<>>, position_to_relationships |-> <<>>]

\* relationship_manager = None
NoManager == [exists |-> FALSE, relationships |-> <<>>, position_to_relationships |-> <<>>]

\* The indexing loop of add_relationship over all_positions.
RECURSIVE IndexPositions(_, _, _)
IndexPositions(index, all_positions, rel) ==
    IF all_positions = <<>> THEN index
    ELSE LET pos == Head(all_positions)
         IN IndexPositions(DictPut(index, pos, Append(DictGet(index, pos, <<>>), rel)),
                           Tail(all_positions), rel)

add_relationship(rm, rel) ==
    [rm EXCEPT !.relationships = Append(@, rel),
               !.position_to_relationships =
                   IndexPositions(@, rel.source_positions \o rel.target_positions, rel)]

\* A manager to which the relationships of a list were added, one by one.
RECURSIVE AddAll(_, _)
AddAll(rm, rels) ==
    IF rels = <<>> THEN rm ELSE AddAll(add_relationship(rm, Head(rels)), Tail(rels))

get_relationships_for_position(rm, pos) ==
    DictGet(rm.position_to_relationships, pos, <<>>)

get_requires_relationships(rm, pos) ==
    SelectSeq(get_relationships_for_position(rm, pos),
              LAMBDA r : r.relation_type = "requires" /\ is_source(r, pos))

\* get_enabled_by_relationships leaving out the relationships of a
\* strength below 1.0.
get_enabled_by_relationships_strong(rm, pos) ==
    SelectSeq(get_relationships_for_position(rm, pos),
              LAMBDA r : r.relation_type = "enables" /\ is_target(r, pos)
                            /\ r.strength >= 10)

get_enabled_by_relationships(rm, pos) ==
    SelectSeq(get_relationships_for_position(rm, pos),
              LAMBDA r : r.relation_type = "enables" /\ is_target(r, pos))

get_hint_relationships(rm, pos) ==
    SelectSeq(get_relationships_for_position(rm, pos),
              LAMBDA r : r.relation_type = "hints_at")

\* can_reveal_position asking every ENABLES relationship that targets the
\* position for a solved source.
can_reveal_position_every_enabler(rm, pos, solved_positions) ==
    LET requires_rels == get_requires_relationships(rm, pos)
        enabled_by_rels == get_enabled_by_relationships(rm, pos)
        complement_rels == SelectSeq(get_relationships_for_position(rm, pos),
                                     LAMBDA r : r.relation_type = "complements")
    IN /\ \A i \in 1..Len(requires_rels) :
              (SeqToSet(requires_rels[i].source_positions) \ {pos}) \subseteq solved_positions
       /\ \A i \in 1..Len(enabled_by_rels) :
              SeqToSet(enabled_by_rels[i].source_positions) \cap solved_positions # {}
       /\ \A i \in 1..Len(complement_rels) :
              ((SeqToSet(complement_rels[i].source_positions)
                  \cup SeqToSet(complement_rels[i].target_positions)) \ {pos})
                 \cap solved_positions # {}

\* can_reveal_position treating HINTS_AT as it treats ENABLES.
can_reveal_position_hints_gate(rm, pos, solved_positions) ==
    LET requires_rels == get_requires_relationships(rm, pos)
        enabled_by_rels == SelectSeq(get_relationships_for_position(rm, pos),
                                     LAMBDA r : /\ r.relation_type \in {"enables", "hints_at"}
                                                /\ is_target(r, pos))
        complement_rels == SelectSeq(get_relationships_for_position(rm, pos),
                                     LAMBDA r : r.relation_type = "complements")
    IN /\ \A i \in 1..Len(requires_rels) :
              (SeqToSet(requires_rels[i].source_positions) \ {pos}) \subseteq solved_positions
       /\ (enabled_by_rels # <<>> =>
              \E i \in 1..Len(enabled_by_rels) :
                  SeqToSet(enabled_by_rels[i].source_positions) \cap solved_positions # {})
       /\ \A i \in 1..Len(complement_rels) :
              ((SeqToSet(complement_rels[i].source_positions)
                  \cup SeqToSet(complement_rels[i].target_positions)) \ {pos})
                 \cap solved_positions # {}

\* can_reveal_position refusing a position that is itself in the solved set.
can_reveal_position_unsolved_only(rm, pos, solved_positions) ==
    LET requires_rels == get_requires_relationships(rm, pos)
        enabled_by_rels == get_enabled_by_relationships(rm, pos)
        complement_rels == SelectSeq(get_relationships_for_position(rm, pos),
                                     LAMBDA r : r.relation_type = "complements")
    IN /\ pos \notin solved_positions
       /\ \A i \in 1..Len(requires_rels) :
              (SeqToSet(requires_rels[i].source_positions) \ {pos}) \subseteq solved_positions
       /\ (enabled_by_rels # <<>> =>
              \E i \in 1..Len(enabled_by_rels) :
                  SeqToSet(enabled_by_rels[i].source_positions) \cap solved_positions # {})
       /\ \A i \in 1..Len(complement_rels) :
              ((SeqToSet(complement_rels[i].source_positions)
                  \cup SeqToSet(complement_rels[i].target_positions)) \ {pos})
                 \cap solved_positions # {}

can_reveal_position(rm, pos, solved_positions) ==
    LET requires_rels == get_requires_relationships(rm, pos)
        enabled_by_rels == get_enabled_by_relationships(rm, pos)
        complement_rels == SelectSeq(get_relationships_for_position(rm, pos),
                                     LAMBDA r : r.relation_type = "complements")
    IN /\ \A i \in 1..Len(requires_rels) :
              (SeqToSet(requires_rels[i].source_positions) \ {pos}) \subseteq solved_positions
       /\ (enabled_by_rels # <<>> =>
              \E i \in 1..Len(enabled_by_rels) :
                  SeqToSet(enabled_by_rels[i].source_positions) \cap solved_positions # {})
       /\ \A i \in 1..Len(complement_rels) :
              ((SeqToSet(complement_rels[i].source_positions)
                  \cup SeqToSet(complement_rels[i].target_positions)) \ {pos})
                 \cap solved_positions # {}

\* priority_map, in tenths.
PriorityMap(t) ==
    CASE t = "enables" -> 10
      [] t = "hints_at" -> 8
      [] t = "complements" -> 6
      [] t = "requires" -> 4
      [] t = "contrasts" -> 5
      [] t = "chains_to" -> 9
      [] OTHER -> 5

\* base_priority * strength, in hundredths.
get_revelation_priority(rel) == PriorityMap(rel.relation_type) * rel.strength

max_reveals_per_solve == 2

\* The (priority, target_pos) pairs of one relationship's targets that are
\* not solved, in target order.
RECURSIVE TargetCandidates(_, _, _)
TargetCandidates(rel, targets, all_solved_positions) ==
    IF targets = <<>> THEN <<>>
    ELSE (IF Head(targets) \notin all_solved_positions
          THEN <<[priority |-> get_revelation_priority(rel), pos |-> Head(targets)]>>
          ELSE <<>>)
         \o TargetCandidates(rel, Tail(targets), all_solved_positions)

\* The candidates loop of get_newly_revealed_positions.
RECURSIVE CollectCandidates(_, _, _)
CollectCandidates(rels, just_solved_pos, all_solved_positions) ==
    IF rels = <<>> THEN <<>>
    ELSE (IF is_source(Head(rels), just_solved_pos)
          THEN TargetCandidates(Head(rels), Head(rels).target_positions, all_solved_positions)
          ELSE <<>>)
         \o CollectCandidates(Tail(rels), just_solved_pos, all_solved_positions)

\* Insert c behind every element whose priority is at least c's.
RECURSIVE InsertByPriority(_, _)
InsertByPriority(sorted, c) ==
    IF sorted = <<>> THEN <<c>>
    ELSE IF Head(sorted).priority >= c.priority
         THEN <<Head(sorted)>> \o InsertByPriority(Tail(sorted), c)
         ELSE <<c>> \o sorted

\* candidates.sort(key=priority, reverse=True): stable, highest first.
RECURSIVE SortByPriority(_, _)
SortByPriority(sorted, rest) ==
    IF rest = <<>> THEN sorted
    ELSE SortByPriority(InsertByPriority(sorted, Head(rest)), Tail(rest))

\* Mutant of AcceptCandidates: a candidate is accepted without asking
\* can_reveal_position.
RECURSIVE AcceptCandidates_unchecked(_, _, _, _)
AcceptCandidates_unchecked(rm, cands, newly_revealed, all_solved_positions) ==
    IF cands = <<>> \/ Len(newly_revealed) >= max_reveals_per_solve THEN newly_revealed
    ELSE AcceptCandidates_unchecked(rm, Tail(cands), Append(newly_revealed, Head(cands).pos),
                                    all_solved_positions)

\* The accepting loop of get_newly_revealed_positions over the candidates.
RECURSIVE AcceptCandidates(_, _, _, _)
AcceptCandidates(rm, cands, newly_revealed, all_solved_positions) ==
    IF cands = <<>> \/ Len(newly_revealed) >= max_reveals_per_solve THEN newly_revealed
    ELSE AcceptCandidates(rm, Tail(cands),
             IF can_reveal_position(rm, Head(cands).pos, all_solved_positions)
             THEN Append(newly_revealed, Head(cands).pos)
             ELSE newly_revealed,
             all_solved_positions)

get_newly_revealed_positions(rm, just_solved_pos, all_solved_positions) ==
    LET related_relationships == get_relationships_for_position(rm, just_solved_pos)
        candidates == SortByPriority(<<>>,
            CollectCandidates(related_relationships, just_solved_pos, all_solved_positions))
    IN AcceptCandidates(rm, Take(candidates, max_reveals_per_solve * 2), <<>>,
                        all_solved_positions)

----------------------------------------------------------------------------
(* game/board.py                                                           *)

\* Cell, as GameBoard.__init__ builds it from an item of board_data.
Cell(item) ==
    [answer |-> item.answer, references |-> item.references,
     difficulty |-> item.difficulty, position |-> item.position,
     solved |-> FALSE, revealed |-> FALSE]

\* The loop of GameBoard.__init__ over board_data['items']: self.cells[pos] = cell.
RECURSIVE BuildCells(_, _)
BuildCells(cs, items) ==
    IF items = <<>> THEN cs
    ELSE BuildCells(DictPut(cs, Head(items).position, Cell(Head(items))), Tail(items))

\* The order in which the same loop inserts the keys of self.cells.
RECURSIVE BuildOrder(_, _)
BuildOrder(order, items) ==
    IF items = <<>> THEN order
    ELSE BuildOrder(IF Head(items).position \in SeqToSet(order) THEN order
                    ELSE Append(order, Head(items).position),
                    Tail(items))

\* The difficulty-1 cells in iteration order, then min(key=len(references)):
\* python's min keeps the first of equal keys.
RECURSIVE FirstMin(_, _, _)
FirstMin(cs, best, rest) ==
    IF rest = <<>> THEN best
    ELSE FirstMin(cs,
                  IF Len(cs[Head(rest)].references) < Len(cs[best].references)
                  THEN Head(rest) ELSE best,
                  Tail(rest))

simple_starter_reveal(cs, order) ==
    LET starter_cells == SelectSeq(order, LAMBDA p : cs[p].difficulty = 1)
    IN IF starter_cells # <<>>
       THEN [cs EXCEPT ![FirstMin(cs, Head(starter_cells), Tail(starter_cells))].revealed = TRUE]
       ELSE cs

\* Mutant of max_starters: every independent cell may start.
max_starters_all(total) == total

\* min(2, self.total_cells // 3)
max_starters(total) == Min(2, total \div 3)

\* Mutant of StarterLoop: the references of a cell are not looked at.
RECURSIVE StarterLoop_any_references(_, _, _, _, _)
StarterLoop_any_references(cs, rest, revealed_count, limit, rm) ==
    IF rest = <<>> \/ revealed_count >= limit
    THEN [cells |-> cs, revealed_count |-> revealed_count]
    ELSE LET pos == Head(rest)
         IN IF cs[pos].difficulty = 1 /\ can_reveal_position(rm, pos, {})
            THEN StarterLoop_any_references([cs EXCEPT ![pos].revealed = TRUE], Tail(rest),
                                            revealed_count + 1, limit, rm)
            ELSE StarterLoop_any_references(cs, Tail(rest), revealed_count, limit, rm)

\* Mutant of StarterLoop: can_reveal_position is not asked.
RECURSIVE StarterLoop_ungated(_, _, _, _, _)
StarterLoop_ungated(cs, rest, revealed_count, limit, rm) ==
    IF rest = <<>> \/ revealed_count >= limit
    THEN [cells |-> cs, revealed_count |-> revealed_count]
    ELSE LET pos == Head(rest)
         IN IF cs[pos].difficulty = 1 /\ Len(cs[pos].references) = 0
            THEN StarterLoop_ungated([cs EXCEPT ![pos].revealed = TRUE], Tail(rest),
                                     revealed_count + 1, limit, rm)
            ELSE StarterLoop_ungated(cs, Tail(rest), revealed_count, limit, rm)

\* The for loop of _reveal_starter_clues; gives the cells and revealed_count.
RECURSIVE StarterLoop(_, _, _, _, _)
StarterLoop(cs, rest, revealed_count, limit, rm) ==
    IF rest = <<>> \/ revealed_count >= limit
    THEN [cells |-> cs, revealed_count |-> revealed_count]
    ELSE LET pos == Head(rest)
         IN IF /\ cs[pos].difficulty = 1
               /\ can_reveal_position(rm, pos, {})
               /\ Len(cs[pos].references) = 0
            THEN StarterLoop([cs EXCEPT ![pos].revealed = TRUE], Tail(rest),
                             revealed_count + 1, limit, rm)
            ELSE StarterLoop(cs, Tail(rest), revealed_count, limit, rm)

reveal_starter_clues(cs, order, rm, total) ==
    IF rm.exists
    THEN LET done == StarterLoop(cs, order, 0, max_starters(total), rm)
         IN IF done.revealed_count = 0
            THEN simple_starter_reveal(done.cells, order)
            ELSE done.cells
    ELSE simple_starter_reveal(cs, order)

\* get_cell(row, col) is not None
has_cell(cs, row, col) == <<row, col>> \in DOMAIN cs

\* Positions of the revealed cells, of the solved cells, of the hidden cells.
RevealedPositions(cs) == {p \in DOMAIN cs : cs[p].revealed}

SolvedPositions(cs) == {p \in DOMAIN cs : cs[p].solved}

\* get_revealed_cells / get_available_positions: revealed and not solved.
get_available_positions(cs, order) ==
    SelectSeq(order, LAMBDA p : cs[p].revealed /\ ~cs[p].solved)

\* Mutant of RevealAll: only the first of the positions is revealed.
RevealAll_first(cs, positions) ==
    IF positions = <<>> \/ Head(positions) \notin DOMAIN cs THEN cs
    ELSE [cs EXCEPT ![Head(positions)].revealed = TRUE]

\* for pos in newly_revealed_positions: if pos in self.cells: revealed = True
RECURSIVE RevealAll(_, _)
RevealAll(cs, positions) ==
    IF positions = <<>> THEN cs
    ELSE RevealAll(IF Head(positions) \in DOMAIN cs
                   THEN [cs EXCEPT ![Head(positions)].revealed = TRUE] ELSE cs,
                   Tail(positions))

\* any(fuzz.ratio(ref.lower(), solved_answer) >= 85 for ref in references)
references_match(references, solved_answer) ==
    \E i \in 1..Len(references) :
        Ratio(Lower(references[i]), solved_answer) >= SimilarityThreshold

simple_max_reveals_per_solve == 2

\* Mutant of ReferenceLoop: no limit on the reveals of one solve.
RECURSIVE ReferenceLoop_uncapped(_, _, _, _)
ReferenceLoop_uncapped(cs, rest, revealed_count, solved_answer) ==
    IF rest = <<>> THEN [cells |-> cs, revealed_count |-> revealed_count]
    ELSE LET pos == Head(rest)
         IN IF /\ ~cs[pos].revealed
               /\ ~cs[pos].solved
               /\ references_match(cs[pos].references, solved_answer)
            THEN ReferenceLoop_uncapped([cs EXCEPT ![pos].revealed = TRUE], Tail(rest),
                                        revealed_count + 1, solved_answer)
            ELSE ReferenceLoop_uncapped(cs, Tail(rest), revealed_count, solved_answer)

\* The first loop of _simple_mark_solved.
RECURSIVE ReferenceLoop(_, _, _, _)
ReferenceLoop(cs, rest, revealed_count, solved_answer) ==
    IF rest = <<>> THEN [cells |-> cs, revealed_count |-> revealed_count]
    ELSE LET pos == Head(rest)
         IN IF /\ ~cs[pos].revealed
               /\ ~cs[pos].solved
               /\ revealed_count < simple_max_reveals_per_solve
               /\ references_match(cs[pos].references, solved_answer)
            THEN ReferenceLoop([cs EXCEPT ![pos].revealed = TRUE], Tail(rest),
                               revealed_count + 1, solved_answer)
            ELSE ReferenceLoop(cs, Tail(rest), revealed_count, solved_answer)

\* _simple_mark_solved revealing its low-difficulty cell after every solve.
simple_mark_solved_always_fallback(cs, order, pos) ==
    LET solved_answer == Lower(cs[pos].answer)
        done == ReferenceLoop(cs, order, 0, solved_answer)
        fallback == SelectSeq(order, LAMBDA p :
                        /\ ~done.cells[p].revealed
                        /\ ~done.cells[p].solved
                        /\ done.cells[p].difficulty = 1
                        /\ Len(done.cells[p].references) <= 1)
    IN IF fallback # <<>>
       THEN [done.cells EXCEPT ![Head(fallback)].revealed = TRUE]
       ELSE done.cells

simple_mark_solved(cs, order, pos) ==
    LET solved_answer == Lower(cs[pos].answer)
        done == ReferenceLoop(cs, order, 0, solved_answer)
        fallback == SelectSeq(order, LAMBDA p :
                        /\ ~done.cells[p].revealed
                        /\ ~done.cells[p].solved
                        /\ done.cells[p].difficulty = 1
                        /\ Len(done.cells[p].references) <= 1)
    IN IF done.revealed_count = 0 /\ fallback # <<>>
       THEN [done.cells EXCEPT ![Head(fallback)].revealed = TRUE]
       ELSE done.cells

\* The reveal cascade following the graph and then the references as well.
reveal_connected_both(marked, order, rm, pos) ==
    LET solved_pos == marked[pos].position
    IN IF rm.exists
       THEN simple_mark_solved(
                RevealAll(marked,
                    get_newly_revealed_positions(rm, solved_pos, SolvedPositions(marked))),
                order, pos)
       ELSE simple_mark_solved(marked, order, pos)

\* The second half of _mark_solved, once the cell under key pos is marked:
\* the reveal cascade.
reveal_connected(marked, order, rm, pos) ==
    LET solved_pos == marked[pos].position
    IN IF rm.exists
       THEN RevealAll(marked,
                get_newly_revealed_positions(rm, solved_pos, SolvedPositions(marked)))
       ELSE simple_mark_solved(marked, order, pos)

\* Mutant of mark_solved: the solved cell leaves the revealed ones.
mark_solved_hides(cs, order, rm, pos) ==
    reveal_connected([cs EXCEPT ![pos].solved = TRUE, ![pos].revealed = FALSE],
                     order, rm, pos)

\* _mark_solved on the cell stored under key pos; gives the cells afterwards.
mark_solved(cs, order, rm, pos) ==
    reveal_connected([cs EXCEPT ![pos].solved = TRUE], order, rm, pos)

\* Mutant of answerable: the revealed flag is not looked at.
answerable_unrevealed(cs, row, col) == has_cell(cs, row, col)

\* check_answer goes on to compare the guess: the cell exists and is revealed.
answerable(cs, row, col) == has_cell(cs, row, col) /\ cs[<<row, col>>].revealed

\* The test of check_answer on a revealed cell.
answer_matches(guess, answer) ==
    Ratio(Strip(Lower(guess)), Lower(answer)) >= SimilarityThreshold

\* is_complete true only once the count has passed the number of cells.
is_complete_beyond(count, total) == count > total

\* Mutant of is_complete: at least as many solves as cells.
is_complete_at_least(count, total) == count >= total

is_complete(count, total) == count = total

\* Mutant of is_stuck: completeness is not looked at.
is_stuck_when_complete(cs, order, count, total) ==
    Len(get_available_positions(cs, order)) = 0

\* get_current_clues is the available cells sorted by difficulty; is_stuck
\* only takes its length.
is_stuck(cs, order, count, total) ==
    IF is_complete(count, total) THEN FALSE
    ELSE Len(get_available_positions(cs, order)) = 0

\* Insert p behind every element whose (difficulty, references_count) is not
\* greater than p's.
RECURSIVE InsertByEase(_, _, _)
InsertByEase(cs, sorted, p) ==
    IF sorted = <<>> THEN <<p>>
    ELSE LET q == Head(sorted)
         IN IF \/ cs[q].difficulty < cs[p].difficulty
               \/ /\ cs[q].difficulty = cs[p].difficulty
                  /\ Len(cs[q].references) <= Len(cs[p].references)
            THEN <<q>> \o InsertByEase(cs, Tail(sorted), p)
            ELSE <<p>> \o sorted

RECURSIVE SortByEase(_, _, _)
SortByEase(cs, sorted, rest) ==
    IF rest = <<>> THEN sorted
    ELSE SortByEase(cs, InsertByEase(cs, sorted, Head(rest)), Tail(rest))

\* Mutant of get_unrevealed_cells: the list is left in cell order.
get_unrevealed_cells_unsorted(cs, order) ==
    SelectSeq(order, LAMBDA p : ~cs[p].revealed /\ ~cs[p].solved)

\* Positions of the cells neither revealed nor solved, sorted (stable) by
\* (difficulty, references_count).
get_unrevealed_cells(cs, order) ==
    SortByEase(cs, <<>>, SelectSeq(order, LAMBDA p : ~cs[p].revealed /\ ~cs[p].solved))

\* The cell emergency_reveal_clue picks among a non-empty unrevealed list.
best_candidate(cs, unrevealed) ==
    LET first == SelectSeq(unrevealed, LAMBDA p :
                     Len(cs[p].references) = 0 /\ cs[p].difficulty <= 2)
        second == SelectSeq(unrevealed, LAMBDA p :
                     Len(cs[p].references) <= 1 /\ cs[p].difficulty <= 3)
    IN IF first # <<>> THEN Head(first)
       ELSE IF second # <<>> THEN Head(second)
       ELSE Head(unrevealed)

\* Mutant of emergency_reveal_clue: no cell is revealed.
emergency_reveal_clue_nothing(cs, order) == cs

\* emergency_reveal_clue: the cells afterwards.
\* emergency_reveal_clue revealing the hardest hidden cell along with its
\* best candidate.
emergency_reveal_clue_and_hardest(cs, order) ==
    LET unrevealed == get_unrevealed_cells(cs, order)
    IN IF unrevealed = <<>> THEN cs
       ELSE [cs EXCEPT ![best_candidate(cs, unrevealed)].revealed = TRUE,
                       ![unrevealed[Len(unrevealed)]].revealed = TRUE]

emergency_reveal_clue(cs, order) ==
    LET unrevealed == get_unrevealed_cells(cs, order)
    IN IF unrevealed = <<>> THEN cs
       ELSE [cs EXCEPT ![best_candidate(cs, unrevealed)].revealed = TRUE]

\* One pass of the while loop of check_reachability over the reachable set.
ExpandReachable(rm, reachable) ==
    reachable \cup UNION {SeqToSet(get_newly_revealed_positions(rm, pos, reachable)) :
                          pos \in reachable}

\* The while loop without its condition: it ends only by the break.
RECURSIVE ReachLoop_uncapped(_, _, _, _)
ReachLoop_uncapped(rm, reachable, iteration, max_iterations) ==
    LET next == ExpandReachable(rm, reachable)
    IN IF Cardinality(next) = Cardinality(reachable)
       THEN [reachable |-> next, iteration |-> iteration, passes |-> iteration + 1]
       ELSE ReachLoop_uncapped(rm, next, iteration + 1, max_iterations)

\* The while loop: the reachable set, the number of passes that added
\* something (iteration) and the number of passes made, after at most
\* max_iterations of them.
RECURSIVE ReachLoop(_, _, _, _)
ReachLoop(rm, reachable, iteration, max_iterations) ==
    IF iteration >= max_iterations
    THEN [reachable |-> reachable, iteration |-> iteration, passes |-> iteration]
    ELSE LET next == ExpandReachable(rm, reachable)
         IN IF Cardinality(next) = Cardinality(reachable)
            THEN [reachable |-> next, iteration |-> iteration, passes |-> iteration + 1]
            ELSE ReachLoop(rm, next, iteration + 1, max_iterations)

\* What check_reachability returns; the percentage is in hundredths of a
\* percent.  Without a manager only all_reachable is returned.
NoReport ==
    [all_reachable |-> TRUE, reachable_count |-> 0, total_count |-> 0,
     unreachable_positions |-> {}, reachability_percentage |-> 10000,
     iterations |-> 0, passes |-> 0, analysed |-> FALSE]

\* check_reachability starting its simulation from every cell, revealed or
\* not.
check_reachability_from_all(cs, rm, total) ==
    IF ~rm.exists THEN NoReport
    ELSE LET done == ReachLoop(rm, DOMAIN cs, 0, total * 2)
             all_positions == DOMAIN cs
             unreachable == all_positions \ done.reachable
         IN [all_reachable |-> unreachable = {},
             reachable_count |-> Cardinality(done.reachable),
             total_count |-> Cardinality(all_positions),
             unreachable_positions |-> unreachable,
             reachability_percentage |->
                 (Cardinality(done.reachable) * 10000) \div Cardinality(all_positions),
             iterations |-> done.iteration,
             passes |-> done.passes,
             analysed |-> TRUE]

check_reachability(cs, rm, total) ==
    IF ~rm.exists THEN NoReport
    ELSE LET done == ReachLoop(rm, RevealedPositions(cs), 0, total * 2)
             all_positions == DOMAIN cs
             unreachable == all_positions \ done.reachable
         IN [all_reachable |-> unreachable = {},
             reachable_count |-> Cardinality(done.reachable),
             total_count |-> Cardinality(all_positions),
             unreachable_positions |-> unreachable,
             reachability_percentage |->
                 (Cardinality(done.reachable) * 10000) \div Cardinality(all_positions),
             iterations |-> done.iteration,
             passes |-> done.passes,
             analysed |-> TRUE]

----------------------------------------------------------------------------
(* game/game_state.py                                                      *)

\* grid_multipliers, in tenths.
GridMultiplier(n) ==
    CASE n = 3 -> 10
      [] n = 4 -> 15
      [] n = 5 -> 20
      [] OTHER -> 10

\* clue_multipliers, in tenths.
ClueMultiplier(level) ==
    CASE level = "casual" -> 8
      [] level = "challenging" -> 10
      [] level = "expert" -> 13
      [] level = "mastermind" -> 16
      [] OTHER -> 10

\* grid_mult * clue_mult, in hundredths.
calculate_difficulty_multiplier(n, level) == GridMultiplier(n) * ClueMultiplier(level)

BasePoints(difficulty) ==
    CASE difficulty = 1 -> 10
      [] difficulty = 2 -> 20
      [] difficulty = 3 -> 30
      [] OTHER -> 10

\* _calculate_points: int(base_points * multiplier), less the hint penalty,
\* at least 5.
calculate_points(difficulty, multiplier, hints) ==
    Max(5, ((BasePoints(difficulty) * multiplier) \div 100) - Min(5, hints))

\* _calculate_completion_bonus, elapsed_time in seconds.
calculate_completion_bonus(elapsed_time, wrong, hints, multiplier) ==
    LET time_bonus == Max(0, 100 - (elapsed_time \div 10))
        accuracy_bonus == Max(0, 50 - (wrong * 10))
        efficiency_bonus == Max(0, 30 - (hints * 5))
    IN ((time_bonus + accuracy_bonus + efficiency_bonus) * multiplier) \div 100

\* Mutant of make_guess_refusal: a solved cell is not refused.
make_guess_refusal_resolves(active, hasb, size, cs, row, col) ==
    IF ~active \/ ~hasb THEN "not_active"
    ELSE IF ~(0 <= row /\ row < size /\ 0 <= col /\ col < size) THEN "out_of_bounds"
    ELSE IF ~has_cell(cs, row, col) THEN "no_cell"
    ELSE IF ~cs[<<row, col>>].revealed THEN "not_revealed"
    ELSE ""

\* The early returns of make_guess on the 0-based position: the message of
\* the refusal, "" when the guess goes on to check_answer.
make_guess_refusal(active, hasb, size, cs, row, col) ==
    IF ~active \/ ~hasb THEN "not_active"
    ELSE IF ~(0 <= row /\ row < size /\ 0 <= col /\ col < size) THEN "out_of_bounds"
    ELSE IF ~has_cell(cs, row, col) THEN "no_cell"
    ELSE IF ~cs[<<row, col>>].revealed THEN "not_revealed"
    ELSE IF cs[<<row, col>>].solved THEN "already_solved"
    ELSE ""

\* _check_and_handle_stuck_state: the cells afterwards.
check_and_handle_stuck_state(cs, order, count, total) ==
    IF is_stuck(cs, order, count, total) THEN emergency_reveal_clue(cs, order) ELSE cs

----------------------------------------------------------------------------
(* The record kept of the last call.  op, ok, msg and report are what the  *)
(* call returned; target and newly are history: the state of the addressed *)
(* cell before the call and the number of cells the call revealed.         *)

CellStatus(cs, pos) ==
    IF pos \notin DOMAIN cs THEN "none"
    ELSE IF cs[pos].solved THEN "solved"
    ELSE IF cs[pos].revealed THEN "revealed"
    ELSE "hidden"

NewlyRevealed(before, after) ==
    Cardinality({p \in DOMAIN after :
                    after[p].revealed /\ (p \notin DOMAIN before \/ ~before[p].revealed)})

\* The arguments and the returned list of a query of the relationship
\* manager.
NoQuery == [pos |-> <<0, 0>>, solved_positions |-> {}, positions |-> <<>>]

Result(op, ok, msg, target, newly, report) ==
    [op |-> op, ok |-> ok, msg |-> msg, target |-> target, newly |-> newly,
     report |-> report, query |-> NoQuery]

QueryResult(op, ok, pos, solved_positions, positions) ==
    [op |-> op, ok |-> ok, msg |-> "", target |-> "none", newly |-> 0,
     report |-> NoReport,
     query |-> [pos |-> pos, solved_positions |-> solved_positions,
                positions |-> positions]]

\* Seconds on the clock when a game completes.
ElapsedTimes == {5, 1500}

----------------------------------------------------------------------------
(* game/clue_generator.py                                                  *)

\* ClueGenerator._validate_board: the number of items is counted and each
\* item is looked at for its fields and for the keys of its position (every
\* item of a board specification here is a record that has them).
validate_board(board_data, expected_size) ==
    /\ Len(board_data.items) = expected_size * expected_size
    /\ \A k \in 1..Len(board_data.items) :
           /\ {"answer", "position"} \subseteq DOMAIN board_data.items[k]
           /\ Len(board_data.items[k].position) = 2

----------------------------------------------------------------------------
(* Operations.                                                             *)

\* GameState.start_new_game with the board_data generate_board returned, one
\* that passed _validate_board; the menu offers a new game only while none
\* is being played.
StartNewGame(board_data, level) ==
    LET rm == board_data.relationship_manager
        order == BuildOrder(<<>>, board_data.items)
        total == board_data.grid_size * board_data.grid_size
        built == reveal_starter_clues(BuildCells(<<>>, board_data.items), order, rm, total)
    IN /\ ~game_active
       /\ validate_board(board_data, board_data.grid_size)
       /\ has_board' = TRUE
       /\ grid_size' = board_data.grid_size
       /\ total_cells' = total
       /\ cells' = built
       /\ cell_order' = order
       /\ solved_count' = 0
       /\ starter_revealed' = TRUE
       /\ relationship_manager' = rm
       /\ game_active' = TRUE
       /\ gs_grid_size' = board_data.grid_size
       /\ score' = 0
       /\ wrong_guesses' = 0
       /\ hints_used' = 0
       /\ difficulty_multiplier' = calculate_difficulty_multiplier(board_data.grid_size, level)
       /\ result' = Result("start_new_game", TRUE, "", "none",
                           Cardinality(RevealedPositions(built)), NoReport)

\* GameBoard.check_answer(guess, row, col)
CheckAnswer(guess, row, col) ==
    /\ has_board
    /\ LET pos == <<row, col>>
           target == CellStatus(cells, pos)
       IN IF ~answerable(cells, row, col)
          THEN /\ UNCHANGED <<cells, solved_count>>
               /\ result' = Result("check_answer", FALSE, "", target, 0, NoReport)
          ELSE IF answer_matches(guess, cells[pos].answer)
          THEN LET after == mark_solved(cells, cell_order, relationship_manager, pos)
               IN /\ cells[pos].solved =>
                         solved_count < Cardinality(SolvedPositions(cells)) + MaxExtraSolves
                  /\ cells' = after
                  /\ solved_count' = solved_count + 1
                  /\ result' = Result("check_answer", TRUE, "", target,
                                      NewlyRevealed(cells, after), NoReport)
          ELSE /\ UNCHANGED <<cells, solved_count>>
               /\ result' = Result("check_answer", FALSE, "", target, 0, NoReport)
    /\ UNCHANGED <<has_board, grid_size, total_cells, cell_order, starter_revealed,
                   relationship_manager>>
    /\ UNCHANGED state_vars

\* GameBoard.emergency_reveal_clue()
EmergencyRevealClue ==
    /\ has_board
    /\ LET after == emergency_reveal_clue(cells, cell_order)
       IN /\ cells' = after
          /\ result' = Result("emergency_reveal_clue",
                              get_unrevealed_cells(cells, cell_order) # <<>>, "", "none",
                              NewlyRevealed(cells, after), NoReport)
    /\ UNCHANGED <<has_board, grid_size, total_cells, cell_order, solved_count,
                   starter_revealed, relationship_manager>>
    /\ UNCHANGED state_vars

\* GameBoard.is_stuck()
IsStuck ==
    /\ has_board
    /\ result' = Result("is_stuck", is_stuck(cells, cell_order, solved_count, total_cells),
                        "", "none", 0, NoReport)
    /\ UNCHANGED board_vars
    /\ UNCHANGED state_vars

\* check_reachability carrying its simulation out on the board: the cells
\* it finds reachable are revealed.
CheckReachability_revealing ==
    /\ has_board
    /\ LET report == check_reachability(cells, relationship_manager, total_cells)
       IN /\ result' = Result("check_reachability", report.all_reachable, "", "none", 0,
                              report)
          /\ cells' = [p \in DOMAIN cells |->
                          IF report.analysed /\ p \notin report.unreachable_positions
                          THEN [cells[p] EXCEPT !.revealed = TRUE] ELSE cells[p]]
    /\ UNCHANGED <<has_board, grid_size, total_cells, cell_order, solved_count,
                   starter_revealed, relationship_manager>>
    /\ UNCHANGED state_vars

\* GameBoard.check_reachability()
CheckReachability ==
    /\ has_board
    /\ LET report == check_reachability(cells, relationship_manager, total_cells)
       IN result' = Result("check_reachability", report.all_reachable, "", "none", 0, report)
    /\ UNCHANGED board_vars
    /\ UNCHANGED state_vars

\* GameState.make_guess(guess, row, col), row and col 1-based; elapsed_time
\* is what the clock shows when the guess completes the game.
MakeGuess(guess, row1, col1) ==
    LET row == row1 - 1
        col == col1 - 1
        pos == <<row, col>>
        target == IF has_board THEN CellStatus(cells, pos) ELSE "none"
        refusal == make_guess_refusal(game_active, has_board, gs_grid_size, cells, row, col)
    IN /\ IF refusal # ""
          THEN /\ result' = Result("make_guess", FALSE, refusal, target, 0, NoReport)
               /\ UNCHANGED <<cells, solved_count, game_active, score, wrong_guesses>>
          ELSE IF answerable(cells, row, col) /\ answer_matches(guess, cells[pos].answer)
          THEN LET solved == mark_solved(cells, cell_order, relationship_manager, pos)
                   count == solved_count + 1
                   points == calculate_points(cells[pos].difficulty,
                                              difficulty_multiplier, hints_used)
                   after == IF ~is_complete(count, total_cells)
                            THEN check_and_handle_stuck_state(solved, cell_order,
                                                              count, total_cells)
                            ELSE solved
                   complete == is_complete(count, total_cells)
               IN /\ cells' = after
                  /\ solved_count' = count
                  /\ game_active' = ~complete
                  /\ IF complete
                     THEN \E elapsed_time \in ElapsedTimes :
                              score' = score + points +
                                  calculate_completion_bonus(elapsed_time, wrong_guesses,
                                                             hints_used, difficulty_multiplier)
                     ELSE score' = score + points
                  /\ UNCHANGED wrong_guesses
                  /\ result' = Result("make_guess", TRUE,
                                      IF complete THEN "game_complete" ELSE "correct",
                                      target, NewlyRevealed(cells, after), NoReport)
          ELSE /\ wrong_guesses < MaxWrongGuesses
               /\ wrong_guesses' = wrong_guesses + 1
               /\ UNCHANGED <<cells, solved_count, game_active, score>>
               /\ result' = Result("make_guess", FALSE, "incorrect", target, 0, NoReport)
       /\ UNCHANGED <<has_board, grid_size, total_cells, cell_order, starter_revealed,
                      relationship_manager, gs_grid_size, hints_used,
                      difficulty_multiplier>>

\* GameState.quit_game()
QuitGame ==
    /\ game_active' = FALSE
    /\ result' = Result("quit_game", TRUE, "", "none", 0, NoReport)
    /\ UNCHANGED board_vars
    /\ UNCHANGED <<gs_grid_size, score, wrong_guesses, hints_used, difficulty_multiplier>>

\* check_game_completability without its is_stuck branch: an incomplete
\* board always goes to the analyzer.
CheckGameCompletability_analyser_only ==
    /\ IF ~has_board
       THEN result' = Result("check_game_completability", FALSE, "no_board", "none", 0, NoReport)
       ELSE IF is_complete(solved_count, total_cells)
       THEN result' = Result("check_game_completability", TRUE, "already_complete",
                             "none", 0, NoReport)
       ELSE LET report == check_reachability(cells, relationship_manager, total_cells)
            IN result' = Result("check_game_completability", report.all_reachable,
                                "analysed", "none", 0, report)
    /\ UNCHANGED board_vars
    /\ UNCHANGED state_vars

\* GameState.check_game_completability(); ok is "completable", and the
\* report's analysed flag tells whether the analyzer was consulted.
CheckGameCompletability ==
    /\ IF ~has_board
       THEN result' = Result("check_game_completability", FALSE, "no_board", "none", 0, NoReport)
       ELSE IF is_complete(solved_count, total_cells)
       THEN result' = Result("check_game_completability", TRUE, "already_complete",
                             "none", 0, NoReport)
       ELSE IF is_stuck(cells, cell_order, solved_count, total_cells)
       THEN result' = Result("check_game_completability", FALSE,
                             IF get_unrevealed_cells(cells, cell_order) # <<>>
                             THEN "stuck_can_emergency_reveal" ELSE "stuck",
                             "none", 0, NoReport)
       ELSE LET report == check_reachability(cells, relationship_manager, total_cells)
            IN result' = Result("check_game_completability", report.all_reachable,
                                "analysed", "none", 0, report)
    /\ UNCHANGED board_vars
    /\ UNCHANGED state_vars

----------------------------------------------------------------------------
(* Board specifications: what generate_board may hand to GameBoard.  The   *)
(* items of a board are listed row by row; item i of a grid of size n      *)
(* sits at <<i \div n, i % n>> and has the answer word i + 1.              *)

Pos(i, n) == <<i \div n, i % n>>

Ans(i) == Text(i + 1, "upper")

Junk == Text(0, "lower")

DifficultyPatterns == {"ones", "twos", "progressive", "rising", "late"}

\* "progressive" is the rule of ClueGenerator._create_fallback_board.
Difficulty(pattern, i, count) ==
    CASE pattern = "ones" -> 1
      [] pattern = "twos" -> 2
      [] pattern = "progressive" -> IF i = 0 THEN 1 ELSE Min(3, (i \div 3) + 1)
      [] pattern = "rising" -> 1 + (i % 3)
      [] pattern = "late" -> IF i = count - 1 THEN 1 ELSE 3

ReferencePatterns == {"none", "prev", "first", "heavy"}

\* "prev" is the rule of ClueGenerator._create_fallback_board.
References(pattern, i, count) ==
    CASE pattern = "none" -> <<>>
      [] pattern = "prev" -> IF i = 0 THEN <<>> ELSE <<Ans(i - 1)>>
      [] pattern = "first" -> IF i = 0 THEN <<>> ELSE <<Text(1, "typo")>>
      [] pattern = "heavy" -> IF i = 0 THEN <<Junk, Junk>>
                              ELSE IF i = count - 1 THEN <<>>
                              ELSE <<Junk, Ans(0)>>

GraphPatterns == {"none", "empty", "chain", "star", "pair", "gated", "requires",
                  "complements", "hints", "mixed", "cycle", "overrun", "locked"}

\* The relationship records of a graph pattern on a grid of size n.
Relationships(pattern, n) ==
    LET P(i) == Pos(i, n)
        last == (n * n) - 1
    IN CASE pattern = "chain" ->
              [i \in 1..Max(last, 1) |->
                  ClueRelationship("enables", <<P(i - 1)>>, <<P(i)>>, 10)]
         [] pattern = "star" ->
              <<ClueRelationship("enables", <<P(0)>>,
                                 [i \in 1..Max(last, 3) |-> P(i)], 5)>>
         [] pattern = "pair" ->
              <<ClueRelationship("enables", <<P(0)>>, <<P(1), P(n)>>, 10)>>
         [] pattern = "gated" ->
              <<ClueRelationship("hints_at", <<P(0)>>, <<P(1)>>, 10),
                ClueRelationship("enables", <<P(2)>>, <<P(1)>>, 10)>>
         [] pattern = "requires" ->
              <<ClueRelationship("requires", <<P(0), P(1)>>, <<P(2)>>, 10)>>
         [] pattern = "complements" ->
              <<ClueRelationship("complements", <<P(0)>>, <<P(1)>>, 10),
                ClueRelationship("enables", <<P(1)>>, <<P(2), P(3)>>, 10)>>
         [] pattern = "hints" ->
              <<ClueRelationship("hints_at", <<P(0)>>, <<P(1), P(2), P(3)>>, 10),
                ClueRelationship("chains_to", <<P(1)>>, <<P(0), P(2)>>, 5),
                ClueRelationship("contrasts", <<P(2)>>, <<P(2), P(3)>>, 5)>>
         [] pattern = "mixed" ->
              <<ClueRelationship("enables", <<P(0)>>, <<P(1), P(2)>>, 5),
                ClueRelationship("hints_at", <<P(0)>>, <<P(3), P(1)>>, 10),
                ClueRelationship("requires", <<P(3), P(0)>>, <<P(2)>>, 10)>>
         [] pattern = "cycle" ->
              <<ClueRelationship("requires", <<P(last), P(0)>>, <<P(1)>>, 10),
                ClueRelationship("requires", <<P(0), P(last)>>, <<P(last)>>, 10),
                ClueRelationship("enables", <<P(1)>>, <<P(2)>>, 10)>>
         [] pattern = "overrun" ->
              [i \in 1..(last + 3) |->
                  ClueRelationship("enables", <<P(i - 1)>>, <<P(i)>>, 10)]
         [] pattern = "locked" ->
              <<ClueRelationship("enables", <<P(0)>>, <<P(2), P(3)>>, 10),
                ClueRelationship("enables", <<P(1)>>, <<P(4), P(5)>>, 10),
                ClueRelationship("enables", <<P(2)>>, <<P(6)>>, 10),
                ClueRelationship("requires", <<P(last), P(last - 1)>>, <<P(last)>>, 10)>>
         [] OTHER -> <<>>

\* LLMService._create_relationship_manager on well-formed records; no
\* manager at all when the board data has no 'relationships'.
create_relationship_manager(pattern, n) ==
    IF pattern = "none" THEN NoManager ELSE AddAll(NewManager, Relationships(pattern, n))

(* The relationship records as the generator writes them.  A record may   *)
(* lack 'type', 'source_positions', 'target_positions' or 'strength'; a    *)
(* position may lack 'row' or 'col'; a strength may be a number (in        *)
(* tenths) or text float() does not accept.                                *)

\* str.lower() on the kind strings records carry.
LowerKind(str) ==
    CASE str = "REQUIRES" -> "requires"
      [] str = "Hints_At" -> "hints_at"
      [] OTHER -> str

\* rel_data.get('type', 'enables').lower(), looked up among the values of
\* RelationType; ENABLES when it is none of them.
relation_type_of(rel_data) ==
    LET rel_type_str == LowerKind(IF "type" \in DOMAIN rel_data THEN rel_data.type
                                  ELSE "enables")
    IN IF rel_type_str \in RelationTypes THEN rel_type_str ELSE "enables"

\* The loop over rel_data.get(key, []): the positions that have 'row' and
\* 'col', as pairs.
RECURSIVE parse_positions(_)
parse_positions(positions_data) ==
    IF positions_data = <<>> THEN <<>>
    ELSE LET pos_data == Head(positions_data)
         IN (IF {"row", "col"} \subseteq DOMAIN pos_data
             THEN <<(<<pos_data.row, pos_data.col>>)>> ELSE <<>>)
                \o parse_positions(Tail(positions_data))

\* What one pass of the try block adds to the manager.
load_relationship(manager, rel_data) ==
    LET source_positions ==
            parse_positions(IF "source_positions" \in DOMAIN rel_data
                            THEN rel_data.source_positions ELSE <<>>)
        target_positions ==
            parse_positions(IF "target_positions" \in DOMAIN rel_data
                            THEN rel_data.target_positions ELSE <<>>)
    IN IF source_positions = <<>> \/ target_positions = <<>> THEN manager
       ELSE IF "strength" \in DOMAIN rel_data /\ ~rel_data.strength.numeric
       THEN manager   \* float() raises; the record is given up with a warning
       ELSE add_relationship(manager,
                ClueRelationship(relation_type_of(rel_data), source_positions,
                                 target_positions,
                                 IF "strength" \in DOMAIN rel_data
                                 THEN rel_data.strength.tenths ELSE 5))

\* The for loop giving up at the first record it does not add.
RECURSIVE load_relationships_until_bad(_, _)
load_relationships_until_bad(manager, relationships_data) ==
    IF relationships_data = <<>> THEN manager
    ELSE LET next == load_relationship(manager, Head(relationships_data))
         IN IF next = manager THEN manager
            ELSE load_relationships_until_bad(next, Tail(relationships_data))

\* The for loop of _create_relationship_manager.
RECURSIVE load_relationships(_, _)
load_relationships(manager, relationships_data) ==
    IF relationships_data = <<>> THEN manager
    ELSE load_relationships(load_relationship(manager, Head(relationships_data)),
                            Tail(relationships_data))

PositionPatterns == {"grid", "collide"}

\* The position of item i: its place in the grid, row by row, or, for
\* "collide", the place of the first item again for the last item (a board
\* _validate_board accepts: it counts the items and looks for the keys of
\* each position, not for distinct positions).
ItemPosition(pattern, i, n) ==
    IF pattern = "collide" /\ i = (n * n) - 1 THEN Pos(0, n) ELSE Pos(i, n)

BoardDataAt(n, dpat, rpat, gpat, ppat) ==
    [grid_size |-> n,
     items |-> [k \in 1..(n * n) |->
                   [answer |-> Ans(k - 1),
                    references |-> References(rpat, k - 1, n * n),
                    difficulty |-> Difficulty(dpat, k - 1, n * n),
                    position |-> ItemPosition(ppat, k - 1, n)]],
     relationship_manager |-> create_relationship_manager(gpat, n)]

BoardData(n, dpat, rpat, gpat) == BoardDataAt(n, dpat, rpat, gpat, "grid")

\* A 2x2 board whose last item names the position of the first.
CollidingBoard == BoardDataAt(2, "ones", "none", "none", "collide")

\* The boards games are played on: <<grid size, difficulties, references,
\* graph>>.
GameBoardShapes ==
    {<<2, "ones", "none", "none">>, <<2, "progressive", "prev", "none">>,
     <<2, "ones", "first", "none">>, <<2, "twos", "none", "none">>,
     <<2, "late", "heavy", "none">>, <<2, "ones", "none", "empty">>,
     <<2, "ones", "none", "star">>, <<2, "rising", "none", "mixed">>,
     <<2, "twos", "none", "hints">>,
     <<1, "ones", "none", "none">>, <<1, "ones", "none", "chain">>}

GameBoards ==
    {BoardData(b[1], b[2], b[3], b[4]) : b \in GameBoardShapes} \cup {CollidingBoard}

Levels == {"expert"}

\* What the player may type: each answer of the board in one of the written
\* forms, or something else.
GuessForm(w) ==
    CASE w % 4 = 1 -> "padded"
      [] w % 4 = 2 -> "typo"
      [] w % 4 = 3 -> "lower"
      [] OTHER -> "upper"

Guesses == {Text(w, GuessForm(w)) : w \in 1..total_cells} \cup {Junk}

\* The 0-based positions check_answer is called with: the grid and a
\* position beyond it.
BoardPositions == ((0..(grid_size - 1)) \X (0..(grid_size - 1))) \cup {<<grid_size, 0>>}

\* The 1-based positions the player may type: the grid, row 0 and a column
\* beyond the grid.
TypedPositions ==
    ((1..gs_grid_size) \X (1..gs_grid_size)) \cup {<<0, 1>>, <<1, gs_grid_size + 1>>}

----------------------------------------------------------------------------
(* GameState.__init__: no board yet.                                       *)

Init ==
    /\ has_board = FALSE
    /\ grid_size = 0
    /\ total_cells = 0
    /\ cells = <<>>
    /\ cell_order = <<>>
    /\ solved_count = 0
    /\ starter_revealed = FALSE
    /\ relationship_manager = NoManager
    /\ game_active = FALSE
    /\ gs_grid_size = 3
    /\ score = 0
    /\ wrong_guesses = 0
    /\ hints_used = 0
    /\ difficulty_multiplier = 100
    /\ result = Result("init", TRUE, "", "none", 0, NoReport)

Next ==
    \/ \E board_data \in GameBoards, level \in Levels : StartNewGame(board_data, level)
    \/ \E guess \in Guesses, pos \in BoardPositions : CheckAnswer(guess, pos[1], pos[2])
    \/ EmergencyRevealClue
    \/ IsStuck
    \/ CheckReachability
    \/ \E guess \in Guesses, pos \in TypedPositions : MakeGuess(guess, pos[1], pos[2])
    \/ QuitGame
    \/ CheckGameCompletability

Spec == Init /\ [][Next]_vars

----------------------------------------------------------------------------
(* Construction alone, over every combination of the patterns and over     *)
(* larger grids.                                                           *)

MaxStartGrid == 4

StartBoards ==
    {BoardData(n, d, r, g) : n \in 1..MaxStartGrid, d \in DifficultyPatterns,
                             r \in ReferencePatterns, g \in GraphPatterns}

StartLevels == {"casual", "challenging", "expert", "mastermind"}

NextStart ==
    \E board_data \in StartBoards, level \in StartLevels : StartNewGame(board_data, level)

SpecStart == Init /\ [][NextStart]_vars

----------------------------------------------------------------------------
(* The 3x3 scenario boards, played through check_answer and make_guess.    *)

\* One ENABLES relationship, (0,0) -> (0,1), (1,0), strength 1.0.
ScenarioB == BoardData(3, "ones", "none", "pair")

\* One REQUIRES relationship, (0,0), (0,1) -> (0,2).
ScenarioC == BoardData(3, "ones", "none", "requires")

\* (0,0) hints at (0,1), which only (0,2) enables.
ScenarioGated == BoardData(3, "ones", "none", "gated")

ScenarioBoards == {ScenarioB, ScenarioC, ScenarioGated}

NextScenario ==
    \/ \E board_data \in ScenarioBoards, level \in Levels : StartNewGame(board_data, level)
    \/ \E guess \in Guesses, pos \in BoardPositions : CheckAnswer(guess, pos[1], pos[2])
    \/ \E guess \in Guesses, pos \in TypedPositions : MakeGuess(guess, pos[1], pos[2])

SpecScenario == Init /\ [][NextScenario]_vars

----------------------------------------------------------------------------
(* Games played through start_new_game and make_guess alone.               *)

NextPlay ==
    \/ \E board_data \in GameBoards, level \in Levels : StartNewGame(board_data, level)
    \/ \E guess \in Guesses, pos \in TypedPositions : MakeGuess(guess, pos[1], pos[2])

SpecPlay == Init /\ [][NextPlay]_vars

----------------------------------------------------------------------------
(* The board alone: GameBoard constructed and then used through           *)
(* check_answer and emergency_reveal_clue.                                 *)

NextBoard ==
    \/ \E board_data \in GameBoards, level \in Levels : StartNewGame(board_data, level)
    \/ \E guess \in Guesses, pos \in BoardPositions : CheckAnswer(guess, pos[1], pos[2])
    \/ EmergencyRevealClue

SpecBoard == Init /\ [][NextBoard]_vars

----------------------------------------------------------------------------
(* The analyzer: boards whose graphs have cycles, cells nothing leads to   *)
(* and positions beyond the grid, solved through check_answer, helped by   *)
(* emergency_reveal_clue and queried in every state.                       *)

\* Scenario E: 3x3; (2,1) and (2,2) require each other and nothing else
\* leads to them, every other cell is enabled from the starters.
ScenarioE == BoardData(3, "ones", "none", "locked")

\* With them a 1x1 board whose graph is a chain that runs on beyond the
\* grid, the board with a repeated position, and 2x2 boards with a cyclic
\* graph, with no graph and with one ENABLES relationship.
ReachBoards ==
    {ScenarioE, BoardData(1, "ones", "none", "overrun"), CollidingBoard,
     BoardData(2, "ones", "none", "cycle"), BoardData(2, "ones", "none", "none"),
     BoardData(2, "ones", "none", "star")}

NextReach ==
    \/ \E board_data \in ReachBoards, level \in Levels : StartNewGame(board_data, level)
    \/ \E guess \in Guesses, pos \in BoardPositions : CheckAnswer(guess, pos[1], pos[2])
    \/ EmergencyRevealClue
    \/ CheckReachability
    \/ CheckGameCompletability

SpecReach == Init /\ [][NextReach]_vars

----------------------------------------------------------------------------
(* Plays without help: the same boards, solved through check_answer, with  *)
(* no emergency reveal.                                                    *)

NextSolve ==
    \/ \E board_data \in ReachBoards, level \in Levels : StartNewGame(board_data, level)
    \/ \E guess \in Guesses, pos \in BoardPositions : CheckAnswer(guess, pos[1], pos[2])

SpecSolve == Init /\ [][NextSolve]_vars

----------------------------------------------------------------------------
(* The relationship manager alone: relationships are added to a new        *)
(* manager and its queries are called with every position and solved set   *)
(* of a 2x2 grid.                                                          *)

MaxRelationships == 2

GraphPositions == {Pos(i, 2) : i \in 0..3}

CandidateRelationships ==
    {ClueRelationship("enables", <<Pos(0, 2)>>, <<Pos(1, 2), Pos(2, 2), Pos(3, 2)>>, 5),
     ClueRelationship("hints_at", <<Pos(0, 2)>>, <<Pos(3, 2), Pos(1, 2)>>, 10),
     ClueRelationship("requires", <<Pos(1, 2), Pos(2, 2)>>, <<Pos(3, 2)>>, 10),
     ClueRelationship("complements", <<Pos(2, 2)>>, <<Pos(2, 2), Pos(3, 2)>>, 10),
     ClueRelationship("enables", <<Pos(3, 2), Pos(1, 2)>>, <<Pos(0, 2)>>, 5),
     ClueRelationship("enables", <<Pos(1, 2)>>, <<Pos(1, 2), Pos(2, 2)>>, 10),
     ClueRelationship("contrasts", <<Pos(0, 2), Pos(1, 2)>>, <<Pos(2, 2)>>, 10),
     ClueRelationship("chains_to", <<Pos(2, 2)>>, <<Pos(3, 2), Pos(0, 2)>>, 5)}

\* RelationshipManager.add_relationship(relationship)
AddRelationship(rel) ==
    /\ Len(relationship_manager.relationships) < MaxRelationships
    /\ relationship_manager' = add_relationship(relationship_manager, rel)
    /\ result' = QueryResult("add_relationship", TRUE, <<0, 0>>, {}, <<>>)
    /\ UNCHANGED <<has_board, grid_size, total_cells, cells, cell_order, solved_count,
                   starter_revealed>>
    /\ UNCHANGED state_vars

\* RelationshipManager.can_reveal_position(pos, solved_positions)
CanRevealPosition(pos, solved_positions) ==
    /\ result' = QueryResult("can_reveal_position",
                             can_reveal_position(relationship_manager, pos, solved_positions),
                             pos, solved_positions, <<>>)
    /\ UNCHANGED board_vars
    /\ UNCHANGED state_vars

\* RelationshipManager.get_newly_revealed_positions(just_solved_pos,
\* all_solved_positions); the just-solved position is in the solved set, as
\* at both call sites.
GetNewlyRevealedPositions(just_solved_pos, all_solved_positions) ==
    /\ just_solved_pos \in all_solved_positions
    /\ LET positions == get_newly_revealed_positions(relationship_manager, just_solved_pos,
                                                     all_solved_positions)
       IN result' = QueryResult("get_newly_revealed_positions", positions # <<>>,
                                just_solved_pos, all_solved_positions, positions)
    /\ UNCHANGED board_vars
    /\ UNCHANGED state_vars

InitGraph ==
    /\ has_board = FALSE
    /\ grid_size = 0
    /\ total_cells = 0
    /\ cells = <<>>
    /\ cell_order = <<>>
    /\ solved_count = 0
    /\ starter_revealed = FALSE
    /\ relationship_manager = NewManager
    /\ game_active = FALSE
    /\ gs_grid_size = 3
    /\ score = 0
    /\ wrong_guesses = 0
    /\ hints_used = 0
    /\ difficulty_multiplier = 100
    /\ result = Result("init", TRUE, "", "none", 0, NoReport)

NextGraph ==
    \/ \E rel \in CandidateRelationships : AddRelationship(rel)
    \/ \E pos \in GraphPositions, solved_positions \in SUBSET GraphPositions :
           CanRevealPosition(pos, solved_positions)
    \/ \E pos \in GraphPositions, solved_positions \in SUBSET GraphPositions :
           GetNewlyRevealedPositions(pos, solved_positions)

SpecGraph == InitGraph /\ [][NextGraph]_vars

----------------------------------------------------------------------------
(* The graph builder alone: a manager is created from a list of            *)
(* relationship records, well-formed or not.                               *)

MaxRecords == 3

CandidateRecords ==
    {[type |-> "REQUIRES", source_positions |-> <<[row |-> 0, col |-> 0], [row |-> 0, col |-> 1]>>,
      target_positions |-> <<[row |-> 1, col |-> 1]>>, strength |-> [numeric |-> TRUE, tenths |-> 10]],
     [type |-> "hints_at", source_positions |-> <<[row |-> 0, col |-> 0]>>,
      target_positions |-> <<[row |-> 0, col |-> 1]>>],
     [type |-> "unlocks", source_positions |-> <<[row |-> 0, col |-> 0]>>,
      target_positions |-> <<[row |-> 1, col |-> 0]>>, strength |-> [numeric |-> TRUE, tenths |-> 8]],
     [source_positions |-> <<[row |-> 1, col |-> 0]>>,
      target_positions |-> <<[row |-> 1, col |-> 1]>>, strength |-> [numeric |-> TRUE, tenths |-> 8]],
     [type |-> "requires", target_positions |-> <<[row |-> 0, col |-> 1]>>, strength |-> [numeric |-> TRUE, tenths |-> 10]],
     [type |-> "complements", source_positions |-> <<[row |-> 0, col |-> 1]>>,
      target_positions |-> <<[row |-> 1]>>, strength |-> [numeric |-> TRUE, tenths |-> 6]],
     [type |-> "enables", source_positions |-> <<[row |-> 0, col |-> 1], [col |-> 0]>>,
      target_positions |-> <<[row |-> 1, col |-> 1]>>, strength |-> [numeric |-> TRUE, tenths |-> 10]],
     [type |-> "chains_to", source_positions |-> <<[row |-> 1, col |-> 0]>>,
      target_positions |-> <<[row |-> 1, col |-> 1]>>,
      strength |-> [numeric |-> FALSE, tenths |-> 0]]}

\* LLMService._create_relationship_manager(relationships_data, level); the
\* result keeps the records the manager was made from.
CreateRelationshipManager(relationships_data) ==
    /\ relationship_manager' = load_relationships(NewManager, relationships_data)
    /\ result' = QueryResult("create_relationship_manager", TRUE, <<0, 0>>, {},
                             relationships_data)
    /\ UNCHANGED <<has_board, grid_size, total_cells, cells, cell_order, solved_count,
                   starter_revealed>>
    /\ UNCHANGED state_vars

\* Each run builds one manager, from one list of records.
NextLoad ==
    /\ result.op = "init"
    /\ \E k \in 0..MaxRecords : \E relationships_data \in [1..k -> CandidateRecords] :
           CreateRelationshipManager(relationships_data)

SpecLoad == InitGraph /\ [][NextLoad]_vars

----------------------------------------------------------------------------
(* Properties.                                                             *)

\* A call of op has just returned.
Returned(op) == result.op = op

\* A board has just been constructed.
Constructed == Returned("start_new_game")

\* C1: in every state reached by check_answer, make_guess and
\* emergency_reveal_clue calls, every solved cell is revealed.
C1_SolvedImpliesRevealed ==
    \A p \in DOMAIN cells : cells[p].solved => cells[p].revealed

\* A guess has solved a cell and an emergency reveal has followed.
C1_Witness ==
    /\ Returned("emergency_reveal_clue")
    /\ result.ok
    /\ \E p \in DOMAIN cells : cells[p].solved
    /\ score > 0

\* C2: check_answer returns false and changes no cell and no counter when
\* the position is not on the board, the cell is hidden or the cell is
\* already solved.
C2_CheckAnswerRefuses ==
    [][(result'.op = "check_answer" /\ result'.target \in {"none", "hidden", "solved"})
         => (~result'.ok /\ UNCHANGED <<cells, solved_count>>)]_vars

\* C3: is_complete() is true exactly when solved_count is N*N, and no
\* operation on a board decreases solved_count.
C3_CompleteAndMonotone ==
    /\ [](has_board =>
            (is_complete(solved_count, total_cells) <=> solved_count = grid_size * grid_size))
    /\ [][result'.op # "start_new_game" => solved_count' >= solved_count]_vars

\* The last guess completed a board.
C3_Witness ==
    /\ Returned("make_guess")
    /\ result.ok
    /\ is_complete(solved_count, total_cells)
    /\ grid_size = 2

\* C4: no operation on a board resets a revealed flag or a solved flag.
C4_FlagsMonotone ==
    [][result'.op # "start_new_game" =>
         \A p \in DOMAIN cells :
             /\ p \in DOMAIN cells'
             /\ cells[p].revealed => cells'[p].revealed
             /\ cells[p].solved => cells'[p].solved]_vars

\* The analyzer was consulted on a board with a solved cell and a revealed,
\* unsolved cell.
C4_Witness ==
    /\ Returned("check_game_completability")
    /\ result.report.analysed
    /\ \E p \in DOMAIN cells : cells[p].solved
    /\ \E p \in DOMAIN cells : cells[p].revealed /\ ~cells[p].solved

\* C5: make_guess on an illegal target (no active game, a position off the
\* board, a hidden cell, a solved cell) returns success = false and changes
\* neither the board nor score nor wrong_guesses.
C5_IllegalGuessChangesNothing ==
    [][(/\ result'.op = "make_guess"
        /\ (~game_active \/ result'.target \in {"none", "hidden", "solved"}))
         => (/\ ~result'.ok
             /\ UNCHANGED <<cells, solved_count, score, wrong_guesses, board_vars>>)]_vars

\* A guess at a solved cell of an active game was refused.
C5_Witness ==
    /\ Returned("make_guess")
    /\ ~result.ok
    /\ result.target = "solved"
    /\ game_active

\* C6: right after construction at least one cell is revealed.
C6_StartRevealsSomething ==
    Constructed => RevealedPositions(cells) # {}

\* The positions a graph lets start, in cell order: difficulty 1, no
\* references, revealable with nothing solved.
IndependentStarters ==
    SelectSeq(cell_order, LAMBDA p :
        /\ cells[p].difficulty = 1
        /\ cells[p].references = <<>>
        /\ can_reveal_position(relationship_manager, p, {}))

\* The no-graph starter rule holds of the revealed cells: none when no cell
\* has difficulty 1, else one cell of difficulty 1 with the fewest
\* references among those.
SimpleStarterRule ==
    LET easy == {p \in DOMAIN cells : cells[p].difficulty = 1}
        revealed == RevealedPositions(cells)
    IN IF easy = {} THEN revealed = {}
       ELSE \E p \in easy :
               /\ revealed = {p}
               /\ \A q \in easy : Len(cells[p].references) <= Len(cells[q].references)

\* C7 as claimed: a board constructed with a graph reveals every position
\* that can_reveal_position accepts against the empty solved set.
C7_AllRevealableRevealed ==
    (Constructed /\ relationship_manager.exists) =>
        \A p \in DOMAIN cells :
            can_reveal_position(relationship_manager, p, {}) => cells[p].revealed

\* C7 as amended: a board constructed with a graph reveals the first
\* min(2, N*N div 3) positions, in cell order, that have difficulty 1, no
\* references and are revealable against the empty solved set; when there
\* is none (or the limit is 0) the no-graph rule applies.
C7_FirstStartersRevealed ==
    (Constructed /\ relationship_manager.exists) =>
        LET limit == Min(2, (grid_size * grid_size) \div 3)
        IN IF limit > 0 /\ IndependentStarters # <<>>
           THEN RevealedPositions(cells) = SeqToSet(Take(IndependentStarters, limit))
           ELSE SimpleStarterRule

\* A graph board on which more positions could start than the limit lets.
C7_Witness ==
    /\ Constructed
    /\ relationship_manager.exists
    /\ relationship_manager.relationships # <<>>
    /\ Len(IndependentStarters) > 2
    /\ Cardinality(RevealedPositions(cells)) = 2

\* C8: after construction at most 2 cells are revealed, and on grids of
\* size 3 and 4 at most a third of the cells.
C8_ConservativeStart ==
    Constructed =>
        /\ Cardinality(RevealedPositions(cells)) <= 2
        /\ grid_size \in {3, 4} => 3 * Cardinality(RevealedPositions(cells)) <= total_cells

\* A 4x4 board that starts with two revealed cells.
C8_Witness ==
    /\ Constructed
    /\ grid_size = 4
    /\ Cardinality(RevealedPositions(cells)) = 2

\* The position p is what the claim calls an eligible candidate of the last
\* get_newly_revealed_positions query.
Eligible(p) ==
    /\ \E i \in 1..Len(relationship_manager.relationships) :
           /\ is_source(relationship_manager.relationships[i], result.query.pos)
           /\ is_target(relationship_manager.relationships[i], p)
    /\ p \notin result.query.solved_positions
    /\ can_reveal_position(relationship_manager, p, result.query.solved_positions)

\* Every position a relationship of the manager names.
NamedPositions ==
    UNION {SeqToSet(relationship_manager.relationships[i].source_positions)
              \cup SeqToSet(relationship_manager.relationships[i].target_positions) :
           i \in 1..Len(relationship_manager.relationships)}

\* The number of candidates the last query collected.
CandidateCount ==
    Len(CollectCandidates(
            get_relationships_for_position(relationship_manager, result.query.pos),
            result.query.pos, result.query.solved_positions))

\* C9 as claimed: get_newly_revealed_positions returns every eligible
\* candidate.
C9_EveryEligibleReturned ==
    Returned("get_newly_revealed_positions") =>
        \A p \in NamedPositions : Eligible(p) => p \in SeqToSet(result.query.positions)

\* C9 as amended: get_newly_revealed_positions returns at most 2 positions,
\* each of them an eligible candidate, and it returns every eligible
\* candidate when it collected at most 2 candidates.
C9_AtMostTwoEligibleReturned ==
    Returned("get_newly_revealed_positions") =>
        /\ Len(result.query.positions) <= 2
        /\ \A p \in SeqToSet(result.query.positions) : Eligible(p)
        /\ CandidateCount <= 2 =>
               \A p \in NamedPositions : Eligible(p) => p \in SeqToSet(result.query.positions)

\* A query with three eligible candidates, of which two were returned.
C9_Witness ==
    /\ Returned("get_newly_revealed_positions")
    /\ Cardinality({p \in NamedPositions : Eligible(p)}) = 3
    /\ Cardinality(SeqToSet(result.query.positions)) = 2

\* C10: a successful guess reveals at most 2 cells, with or without a graph,
\* the emergency reveal of the guess included.
C10_AtMostTwoPerGuess ==
    ((Returned("make_guess") \/ Returned("check_answer")) /\ result.ok) => result.newly <= 2

\* A successful guess on a board without a graph revealed two cells.
C10_Witness ==
    /\ Returned("make_guess")
    /\ result.ok
    /\ result.newly = 2
    /\ ~relationship_manager.exists

\* The board being played is Scenario B, is Scenario C.
OnScenarioB ==
    has_board /\ grid_size = 3 /\ relationship_manager = ScenarioB.relationship_manager

OnScenarioC ==
    has_board /\ grid_size = 3 /\ relationship_manager = ScenarioC.relationship_manager

\* The last call was a solve: check_answer returned True or make_guess
\* returned success.
Solved == (Returned("check_answer") \/ Returned("make_guess")) /\ result.ok

\* C11: on Scenario B (0,0) is a starter, and the step that solves (0,0)
\* takes both (0,1) and (1,0) from hidden to revealed.
C11_ScenarioB ==
    /\ [](Constructed /\ OnScenarioB => cells[<<0, 0>>].revealed)
    /\ [][(OnScenarioB /\ Solved' /\ ~cells[<<0, 0>>].solved /\ cells'[<<0, 0>>].solved) =>
             /\ ~cells[<<0, 1>>].revealed /\ ~cells[<<1, 0>>].revealed
             /\ cells'[<<0, 1>>].revealed /\ cells'[<<1, 0>>].revealed]_vars

\* check_answer has just solved (0,0) of Scenario B and revealed two cells.
C11_Witness ==
    /\ OnScenarioB
    /\ Returned("check_answer")
    /\ result.ok
    /\ result.target = "revealed"
    /\ result.newly = 2
    /\ SolvedPositions(cells) = {<<0, 0>>}
    /\ cells[<<0, 1>>].revealed
    /\ cells[<<1, 0>>].revealed

\* Both sources of the REQUIRES relationship of Scenario C are solved.
BothSourcesSolved(cs) == cs[<<0, 0>>].solved /\ cs[<<0, 1>>].solved

\* C12: on Scenario C (0,2) stays hidden while fewer than both of (0,0) and
\* (0,1) are solved, and is revealed in the step that solves the second.
C12_ScenarioC ==
    /\ [](OnScenarioC => (cells[<<0, 2>>].revealed => BothSourcesSolved(cells)))
    /\ [][(OnScenarioC /\ Solved' /\ ~BothSourcesSolved(cells) /\ BothSourcesSolved(cells')) =>
             cells'[<<0, 2>>].revealed]_vars

\* The source -> target edges of the REQUIRES, ENABLES and COMPLEMENTS
\* relationships of a manager.
GateEdges(rm) ==
    UNION {SeqToSet(rm.relationships[i].source_positions)
              \X SeqToSet(rm.relationships[i].target_positions) :
           i \in {j \in 1..Len(rm.relationships) :
                     rm.relationships[j].relation_type
                         \in {"requires", "enables", "complements"}}}

\* The positions some path of edges leads to from a position of from.
RECURSIVE ReachableAlong(_, _)
ReachableAlong(edges, from) ==
    LET next == from \cup {e[2] : e \in {d \in edges : d[1] \in from}}
    IN IF next = from THEN from ELSE ReachableAlong(edges, next)

\* No position is reached from itself along the edges.
Acyclic(rm) ==
    \A e \in GateEdges(rm) : e[1] \notin ReachableAlong(GateEdges(rm), {e[2]})

\* C13 as claimed: on a board with an acyclic graph, a cell that becomes
\* revealed, at construction, in a solve or by emergency reveal, satisfies
\* can_reveal_position against the cells solved at that instant.
C13_RevealedOnlyWhenAllowed ==
    [][(has_board' /\ relationship_manager'.exists /\ Acyclic(relationship_manager')) =>
          \A p \in DOMAIN cells' :
              (cells'[p].revealed /\ (Constructed' \/ ~cells[p].revealed)) =>
                  can_reveal_position(relationship_manager', p, SolvedPositions(cells'))]_vars

\* C13 as amended: on a board with a graph, the cells revealed by the
\* starter loop (when it finds a starter) and the cells revealed by the
\* cascade of a solve satisfy can_reveal_position against the cells solved
\* at that instant.  (A make_guess that reveals two cells revealed both in
\* its cascade: its emergency reveal only follows a cascade that left no
\* clue available.)
C13_GraphRevealsAllowed ==
    [][(has_board' /\ relationship_manager'.exists) =>
          /\ (Constructed' /\ IndependentStarters' # <<>> /\ total_cells' >= 3) =>
                 \A p \in DOMAIN cells' :
                     cells'[p].revealed => can_reveal_position(relationship_manager', p, {})
          /\ (~Constructed' /\ (Returned("check_answer")'
                                  \/ (Returned("make_guess")' /\ result'.newly = 2))) =>
                 \A p \in DOMAIN cells' :
                     (cells'[p].revealed /\ ~cells[p].revealed) =>
                         can_reveal_position(relationship_manager', p,
                                             SolvedPositions(cells'))]_vars

\* A solve on the gated board revealed (0,1), which (0,0) hints at and only
\* (0,2) enables, once (0,2) was solved.
C13_Witness ==
    /\ has_board
    /\ relationship_manager = ScenarioGated.relationship_manager
    /\ Returned("check_answer")
    /\ result.ok
    /\ result.newly = 1
    /\ cells[<<0, 1>>].revealed
    /\ SolvedPositions(cells) = {<<0, 0>>, <<0, 2>>}

\* C14: a board constructed without a graph has exactly one revealed cell,
\* of difficulty 1 and with the fewest references among the cells of
\* difficulty 1; the 2x2 board of four reference-free cells of difficulty 1
\* starts with one revealed cell and is not stuck.
C14_SingleEasiestStarter ==
    (Constructed /\ ~relationship_manager.exists) =>
        /\ \E p \in DOMAIN cells :
               /\ RevealedPositions(cells) = {p}
               /\ cells[p].difficulty = 1
               /\ \A q \in DOMAIN cells :
                      cells[q].difficulty = 1 =>
                          Len(cells[p].references) <= Len(cells[q].references)
        /\ (/\ grid_size = 2
            /\ \A q \in DOMAIN cells : cells[q].difficulty = 1 /\ cells[q].references = <<>>) =>
               /\ Cardinality(RevealedPositions(cells)) = 1
               /\ ~is_stuck(cells, cell_order, solved_count, total_cells)

\* C15: is_stuck() returns true exactly when the board is not complete and
\* no cell is revealed and unsolved.
C15_StuckIffNothingAvailable ==
    Returned("is_stuck") =>
        (result.ok <=>
            /\ solved_count # grid_size * grid_size
            /\ {p \in DOMAIN cells : cells[p].revealed /\ ~cells[p].solved} = {})

\* is_stuck() returned true on a board with solved cells and a hidden one.
C15_Witness ==
    /\ Returned("is_stuck")
    /\ result.ok
    /\ SolvedPositions(cells) # {}
    /\ \E p \in DOMAIN cells : ~cells[p].revealed

\* The hidden cells: neither revealed nor solved.
HiddenPositions(cs) == {p \in DOMAIN cs : ~cs[p].revealed /\ ~cs[p].solved}

\* The available clues: revealed and not solved.
AvailablePositions(cs) == {p \in DOMAIN cs : cs[p].revealed /\ ~cs[p].solved}

\* The board is stuck: not complete, and no clue is available.
Stuck ==
    has_board /\ solved_count # grid_size * grid_size /\ AvailablePositions(cells) = {}

\* C16: emergency_reveal_clue() returns true exactly when a hidden cell
\* exists at the call; called on a stuck board with a hidden cell it returns
\* true and leaves the board not stuck.
C16_EmergencyRevealSucceeds ==
    [][Returned("emergency_reveal_clue")' =>
          /\ result'.ok <=> HiddenPositions(cells) # {}
          /\ (Stuck /\ HiddenPositions(cells) # {}) =>
                 (result'.ok /\ ~Stuck' /\ AvailablePositions(cells') # {})]_vars

\* emergency_reveal_clue() returned true on a board with solved cells whose
\* only available clue is the one it revealed: the board was stuck.
C16_Witness ==
    /\ Returned("emergency_reveal_clue")
    /\ result.ok
    /\ result.newly = 1
    /\ Cardinality(AvailablePositions(cells)) = 1
    /\ SolvedPositions(cells) # {}
    /\ solved_count # grid_size * grid_size

\* The place of a position in the order of the cells.
OrderIndex(order, p) == CHOOSE i \in 1..Len(order) : order[i] = p

\* p comes no later than q in the hidden cells sorted by (difficulty,
\* reference count): lower difficulty, then fewer references, then earlier
\* in the order of the cells.
SortsFirst(cs, order, p, q) ==
    \/ cs[p].difficulty < cs[q].difficulty
    \/ /\ cs[p].difficulty = cs[q].difficulty
       /\ Len(cs[p].references) < Len(cs[q].references)
    \/ /\ cs[p].difficulty = cs[q].difficulty
       /\ Len(cs[p].references) = Len(cs[q].references)
       /\ OrderIndex(order, p) <= OrderIndex(order, q)

\* The first, in that sorted order, of a non-empty set of positions.
FirstSorted(cs, order, S) == CHOOSE p \in S : \A q \in S : SortsFirst(cs, order, p, q)

\* The cell the claimed priority rule picks among the hidden cells.
PriorityPick(cs, order) ==
    LET hidden == HiddenPositions(cs)
        independent == {h \in hidden : Len(cs[h].references) = 0 /\ cs[h].difficulty <= 2}
        low == {h \in hidden : Len(cs[h].references) <= 1 /\ cs[h].difficulty <= 3}
    IN IF independent # {} THEN FirstSorted(cs, order, independent)
       ELSE IF low # {} THEN FirstSorted(cs, order, low)
       ELSE FirstSorted(cs, order, hidden)

\* C17: a successful emergency_reveal_clue() reveals exactly the hidden cell
\* picked by strict priority over the hidden cells sorted by (difficulty,
\* reference count): the first with no references and difficulty <= 2, else
\* the first with at most one reference and difficulty <= 3, else the first.
C17_EmergencyPriority ==
    [][(Returned("emergency_reveal_clue")' /\ result'.ok) =>
          cells' = [cells EXCEPT ![PriorityPick(cells, cell_order)].revealed = TRUE]]_vars

\* emergency_reveal_clue() passed over a hidden cell that comes earlier on
\* the board for an easier one: nothing is solved, one cell was the starter
\* and the other revealed cell is easier than a hidden cell before it.
C17_Witness ==
    /\ Returned("emergency_reveal_clue")
    /\ result.ok
    /\ SolvedPositions(cells) = {}
    /\ Cardinality(RevealedPositions(cells)) = 2
    /\ \E h \in HiddenPositions(cells), r \in RevealedPositions(cells) :
           /\ OrderIndex(cell_order, h) < OrderIndex(cell_order, r)
           /\ cells[r].difficulty < cells[h].difficulty
           /\ \A q \in RevealedPositions(cells) \ {r} :
                  OrderIndex(cell_order, q) < OrderIndex(cell_order, h)

\* C18: after a make_guess that returned success the board is complete or
\* has a revealed, unsolved cell.
C18_PlayableAfterGuess ==
    (Returned("make_guess") /\ result.ok) =>
        (solved_count = grid_size * grid_size \/ AvailablePositions(cells) # {})

\* C19: a game that had an available clue after construction never gets
\* permanently stuck.  While it is active some clue is available, so a
\* correct answer can be submitted; each successful make_guess raises
\* solved_count by one, and the one that reaches N*N ends the game: a
\* player who keeps answering correctly completes the board.  (A game with
\* no clue after construction has no revealed cell at all, then and later.)
C19_NeverPermanentlyStuck ==
    /\ []((game_active /\ has_board /\ RevealedPositions(cells) # {}) =>
              AvailablePositions(cells) # {})
    /\ [][(Returned("make_guess")' /\ result'.ok) =>
             /\ solved_count' = solved_count + 1
             /\ solved_count' = grid_size * grid_size => ~game_active']_vars

\* What make_guess reports of an ordinary guess: its refusals, an incorrect
\* guess, a correct one, and the one that completes the game.
OrdinaryOutcomes ==
    {"not_active", "out_of_bounds", "no_cell", "not_revealed", "already_solved",
     "incorrect", "correct", "game_complete"}

\* C20: when a successful make_guess leaves the board stuck, incomplete and
\* without a hidden cell, its result reports that, as something other than
\* the outcome of an ordinary guess.
C20_UnrecoverableReported ==
    (/\ Returned("make_guess")
     /\ result.ok
     /\ Stuck
     /\ HiddenPositions(cells) = {}) =>
        result.msg \notin OrdinaryOutcomes

\* C21: every constructed board holds exactly N*N cells, one for each
\* coordinate of the grid (a board specification in which two items share
\* a position never becomes a board).
C21_OneCellPerCoordinate ==
    Constructed =>
        /\ DOMAIN cells = (0..(grid_size - 1)) \X (0..(grid_size - 1))
        /\ Cardinality(DOMAIN cells) = grid_size * grid_size

\* C22: check_reachability returns after at most 2*N*N passes of its loop,
\* whatever the board and its graph, cyclic graphs included.
C22_ReachabilityPassesBounded ==
    Returned("check_reachability") =>
        /\ result.report.passes <= 2 * grid_size * grid_size
        /\ result.report.iterations <= result.report.passes

\* A call on a cyclic graph, and a call the cap ended.
C22_Witness ==
    /\ Returned("check_reachability")
    /\ result.report.analysed
    /\ \/ ~Acyclic(relationship_manager) /\ result.report.passes >= 2
       \/ result.report.iterations = 2 * grid_size * grid_size

RequireEachOther(rm, p, q) ==
    /\ p # q
    /\ \E i \in 1..Len(rm.relationships) :
           /\ rm.relationships[i].relation_type = "requires"
           /\ {p, q} \subseteq SeqToSet(rm.relationships[i].source_positions)

\* The hidden cells that can only be unlocked through a 2-cycle of mutual
\* requirement: the cell and a hidden partner require each other, and no
\* relationship leads to the cell from outside the two.
CycleLocked ==
    {p \in HiddenPositions(cells) :
        \E q \in HiddenPositions(cells) :
            /\ RequireEachOther(relationship_manager, p, q)
            /\ \A i \in 1..Len(relationship_manager.relationships) :
                   is_target(relationship_manager.relationships[i], p) =>
                       SeqToSet(relationship_manager.relationships[i].source_positions)
                           \subseteq {p, q}}

\* C24 (Scenario E): check_reachability lists every cell that can only be
\* unlocked through a 2-cycle of mutual requirement as unreachable, and
\* then reports a percentage below 100 and all_reachable = false.
C24_CycleCellUnreachable ==
    (Returned("check_reachability") /\ result.report.analysed /\ CycleLocked # {}) =>
        /\ CycleLocked \subseteq result.report.unreachable_positions
        /\ result.report.reachability_percentage < 10000
        /\ ~result.report.all_reachable

\* The analyzer run on Scenario E: the two cells of the cycle are all it
\* finds unreachable.
C24_Witness ==
    /\ Returned("check_reachability")
    /\ grid_size = 3
    /\ CycleLocked = {<<2, 1>>, <<2, 2>>}
    /\ result.report.unreachable_positions = CycleLocked
    /\ result.report.reachable_count = 7

\* C25: check_game_completability changes nothing of the board or the game.
\* On a complete board it returns completable = true; on a stuck board
\* completable = false, with can_emergency_reveal telling whether a hidden
\* cell exists; on any other board completable is the analyzer's
\* all_reachable.
C25_CompletabilityVerdict ==
    [][(Returned("check_game_completability")' /\ has_board) =>
          /\ UNCHANGED <<board_vars, state_vars>>
          /\ solved_count = total_cells => result'.ok
          /\ Stuck =>
                 /\ ~result'.ok
                 /\ result'.msg = "stuck_can_emergency_reveal" <=> HiddenPositions(cells) # {}
                 /\ result'.msg \in {"stuck_can_emergency_reveal", "stuck"}
          /\ (solved_count # total_cells /\ ~Stuck) =>
                 result'.ok = check_reachability(cells, relationship_manager,
                                                 total_cells).all_reachable]_vars

\* The query on a stuck board that still has a hidden cell.
C25_Witness ==
    /\ Returned("check_game_completability")
    /\ Stuck
    /\ HiddenPositions(cells) # {}
    /\ ~result.ok
    /\ result.msg = "stuck_can_emergency_reveal"

\* The positions of rel_data[key] that have a row and a column.
GivenPositions(rel_data, key) ==
    IF key \notin DOMAIN rel_data THEN {}
    ELSE {<<rel_data[key][i].row, rel_data[key][i].col>> :
             i \in {j \in 1..Len(rel_data[key]) :
                       {"row", "col"} \subseteq DOMAIN rel_data[key][j]}}

\* The record names source and target positions.
HasPositions(rel_data) ==
    GivenPositions(rel_data, "source_positions") # {}
        /\ GivenPositions(rel_data, "target_positions") # {}

\* The record's kind, when it has one, is a known one.
KnownKind(rel_data) ==
    "type" \in DOMAIN rel_data => LowerKind(rel_data.type) \in RelationTypes

\* The record's strength, when it has one, is a number.
NumericStrength(rel_data) ==
    "strength" \in DOMAIN rel_data => rel_data.strength.numeric

\* The kind the graph keeps a record under.
KeptKind(rel_data) ==
    IF "type" \in DOMAIN rel_data /\ KnownKind(rel_data)
    THEN LowerKind(rel_data.type) ELSE "enables"

\* The relationships of the manager are the records of kept, in order,
\* each with the positions it gives.
BuiltFrom(kept) ==
    /\ Len(relationship_manager.relationships) = Len(kept)
    /\ \A k \in 1..Len(kept) :
           LET rel == relationship_manager.relationships[k]
           IN /\ rel.relation_type = KeptKind(kept[k])
              /\ SeqToSet(rel.source_positions) = GivenPositions(kept[k], "source_positions")
              /\ SeqToSet(rel.target_positions) = GivenPositions(kept[k], "target_positions")

\* C26 as claimed: the graph built from a list of records holds the valid
\* records, in order; a record with an unknown kind string or without
\* source or target positions adds nothing.
C26_BadRecordsSkipped ==
    Returned("create_relationship_manager") =>
        BuiltFrom(SelectSeq(result.query.positions,
                            LAMBDA r : KnownKind(r) /\ HasPositions(r) /\ NumericStrength(r)))

\* C26: a record without source or target positions, or with a strength
\* that is not a number, adds nothing to the graph; every other record is
\* added, in order, under its own kind when that is a known one and as
\* ENABLES when its kind string is unknown or absent.
C26_UnknownKindEnables ==
    Returned("create_relationship_manager") =>
        BuiltFrom(SelectSeq(result.query.positions,
                            LAMBDA r : HasPositions(r) /\ NumericStrength(r)))

\* A list with a record without positions, then one of unknown kind, then
\* a valid one: the graph has two relationships, ENABLES and REQUIRES.
C26_Witness ==
    /\ Returned("create_relationship_manager")
    /\ Len(result.query.positions) = 3
    /\ ~HasPositions(result.query.positions[1])
    /\ ~KnownKind(result.query.positions[2]) /\ HasPositions(result.query.positions[2])
    /\ KnownKind(result.query.positions[3]) /\ HasPositions(result.query.positions[3])
    /\ "type" \in DOMAIN result.query.positions[3]
    /\ Len(relationship_manager.relationships) = 2
    /\ relationship_manager.relationships[1].relation_type = "enables"
    /\ relationship_manager.relationships[2].relation_type = "requires"

\* The relationships of the manager of kind t.
OfKind(t) ==
    {relationship_manager.relationships[i] :
        i \in {j \in 1..Len(relationship_manager.relationships) :
                  relationship_manager.relationships[j].relation_type = t}}

Sources(rel) == SeqToSet(rel.source_positions)

Targets(rel) == SeqToSet(rel.target_positions)

\* REQUIRES: for every REQUIRES relationship with pos among its sources,
\* all its other sources are in S.
RequiresHolds(pos, S) ==
    \A rel \in OfKind("requires") : pos \in Sources(rel) => (Sources(rel) \ {pos}) \subseteq S

\* ENABLES: if any ENABLES relationship targets pos, some source of some
\* such relationship is in S.
EnablesHolds(pos, S) ==
    (\E rel \in OfKind("enables") : pos \in Targets(rel)) =>
        \E rel \in OfKind("enables") : pos \in Targets(rel) /\ Sources(rel) \cap S # {}

\* COMPLEMENTS: for every COMPLEMENTS relationship touching pos, some other
\* position of that relationship is in S.
ComplementsHolds(pos, S) ==
    \A rel \in OfKind("complements") :
        pos \in Sources(rel) \cup Targets(rel) =>
            ((Sources(rel) \cup Targets(rel)) \ {pos}) \cap S # {}

GatingOnly(rm) ==
    AddAll(NewManager,
           SelectSeq(rm.relationships,
                     LAMBDA r : r.relation_type \notin {"hints_at", "contrasts", "chains_to"}))

C29_NoSelfDependency ==
    (/\ Returned("can_reveal_position")
     /\ result.ok
     /\ \E rel \in OfKind("requires") \cup OfKind("enables") \cup OfKind("complements") :
            result.query.pos \in Sources(rel) \cap Targets(rel)) =>
        can_reveal_position(relationship_manager, result.query.pos,
                            result.query.solved_positions \ {result.query.pos})

\* The manager with the strength of every relationship set to 1.0: what
\* two managers that differ in strengths only have in common.
Unweighted(rm) ==
    AddAll(NewManager,
           [i \in 1..Len(rm.relationships) |-> [rm.relationships[i] EXCEPT !.strength = 10]])

\* C30 as claimed: strengths do not influence which cells a solve reveals;
\* get_newly_revealed_positions returns the same positions when the
\* strengths of the relationships are changed.
C30_StrengthIrrelevant ==
    Returned("get_newly_revealed_positions") =>
        SeqToSet(result.query.positions) =
            SeqToSet(get_newly_revealed_positions(Unweighted(relationship_manager),
                                                  result.query.pos,
                                                  result.query.solved_positions))

\* C30: strengths do not influence can_reveal_position, and they do not
\* influence the positions a solve reveals when the solve has at most 2
\* candidates (strengths order the candidates, of which the first 4 are
\* looked at and 2 revealed).
C30_StrengthOrdersOnly ==
    /\ Returned("can_reveal_position") =>
           result.ok = can_reveal_position(Unweighted(relationship_manager),
                                           result.query.pos, result.query.solved_positions)
    /\ (Returned("get_newly_revealed_positions") /\ CandidateCount <= 2) =>
           SeqToSet(result.query.positions) =
               SeqToSet(get_newly_revealed_positions(Unweighted(relationship_manager),
                                                     result.query.pos,
                                                     result.query.solved_positions))

\* A solve with two candidates, from relationships of different strengths,
\* both revealed.
C30_Witness ==
    /\ Returned("get_newly_revealed_positions")
    /\ CandidateCount = 2
    /\ Cardinality(SeqToSet(result.query.positions)) = 2
    /\ \E i, j \in 1..Len(relationship_manager.relationships) :
           /\ is_source(relationship_manager.relationships[i], result.query.pos)
           /\ is_source(relationship_manager.relationships[j], result.query.pos)
           /\ relationship_manager.relationships[i].strength
                  # relationship_manager.relationships[j].strength

\* C31: after any sequence of add_relationship calls, the relationships
\* get_relationships_for_position returns for a position are the added
\* relationships that mention it as source or target, in the order they
\* were added, each of them once.
C31_IndexIsSubsequence ==
    \A pos \in GraphPositions :
        get_relationships_for_position(relationship_manager, pos) =
            SelectSeq(relationship_manager.relationships,
                      LAMBDA r : involves_position(r, pos))

\* C32: without a relationship graph, a solve reveals hidden cells whose
\* references match the solved answer, at most 2 of them; when no hidden
\* cell's references match, it reveals exactly one hidden cell of
\* difficulty 1 with at most one reference if there is one, and no cell
\* otherwise.
C32_FallbackReveal ==
    [][\A pos \in DOMAIN cells :
          (/\ Returned("check_answer")'
           /\ result'.ok
           /\ ~relationship_manager.exists
           /\ ~cells[pos].solved
           /\ cells'[pos].solved) =>
              LET new == RevealedPositions(cells') \ RevealedPositions(cells)
                  matching == {p \in HiddenPositions(cells) :
                                  references_match(cells[p].references,
                                                   Lower(cells[pos].answer))}
                  easy == {p \in HiddenPositions(cells) :
                              cells[p].difficulty = 1 /\ Len(cells[p].references) <= 1}
              IN /\ matching # {} =>
                        new \subseteq matching /\ new # {} /\ Cardinality(new) <= 2
                 /\ (matching = {} /\ easy # {}) =>
                        new \subseteq easy /\ Cardinality(new) = 1
                 /\ (matching = {} /\ easy = {}) => new = {}]_vars

\* A solve without a graph after which three hidden cells had matching
\* references and two of them were revealed.
C32_Witness ==
    /\ Returned("check_answer")
    /\ result.ok
    /\ ~relationship_manager.exists
    /\ result.newly = 2
    /\ \E pos \in SolvedPositions(cells) :
           Cardinality({p \in DOMAIN cells :
                           p # pos /\ references_match(cells[p].references,
                                                       Lower(cells[pos].answer))}) = 3

\* C33: an emergency_reveal_clue call that returns true changes the
\* revealed flag of exactly one cell, from false to true, and nothing else:
\* no solved flag, not solved_count, no other cell.  A call that returns
\* false changes nothing.
C33_EmergencyRevealFrame ==
    [][Returned("emergency_reveal_clue")' =>
          /\ UNCHANGED <<has_board, grid_size, total_cells, cell_order, solved_count,
                         starter_revealed, relationship_manager, state_vars>>
          /\ IF result'.ok
             THEN \E p \in DOMAIN cells :
                      /\ ~cells[p].revealed
                      /\ cells' = [cells EXCEPT ![p].revealed = TRUE]
             ELSE cells' = cells]_vars

\* A call that returned true on a board with several hidden cells and a
\* solved one.
C33_Witness ==
    /\ Returned("emergency_reveal_clue")
    /\ result.ok
    /\ result.newly = 1
    /\ Cardinality(HiddenPositions(cells)) >= 2
    /\ SolvedPositions(cells) # {}

\* The cells of the board as its construction left them: no cell solved,
\* the starters revealed.
FreshCells ==
    reveal_starter_clues([p \in DOMAIN cells |->
                             [cells[p] EXCEPT !.revealed = FALSE, !.solved = FALSE]],
                         cell_order, relationship_manager, total_cells)

\* C34: when check_reachability on the freshly constructed board with a
\* graph reports all_reachable, a play that solves available clues one
\* after another never runs out of clues while a cell is still hidden:
\* starters and cascade reveal every cell, no emergency reveal is needed.
C34_CertifiedBoardPlaysOut ==
    (/\ has_board
     /\ relationship_manager.exists
     /\ check_reachability(FreshCells, relationship_manager, total_cells).all_reachable) =>
        ~(AvailablePositions(cells) = {} /\ HiddenPositions(cells) # {})

C36_SolvedCountExact ==
    has_board =>
        /\ solved_count = Cardinality(SolvedPositions(cells))
        /\ solved_count <= total_cells

\* C37: every reachability report counts at most the cells of the board:
\* reachable_count <= total_count, reachability_percentage <= 100 (kept in
\* hundredths of a percent) and reachable_count plus the number of unreachable
\* positions is total_count.
C37_ReportWithinBoard ==
    (Returned("check_reachability") /\ result.report.analysed) =>
        /\ result.report.reachable_count <= result.report.total_count
        /\ result.report.reachability_percentage <= 10000
        /\ result.report.reachable_count
             + Cardinality(result.report.unreachable_positions)
               = result.report.total_count

\* C38: can_reveal_position is monotone in the solved set: when a call
\* answers true for a position and a solved set, the next call for the same
\* position of the same manager with a superset of that solved set answers
\* true as well.
C38_CanRevealMonotone ==
    [][(/\ Returned("can_reveal_position")
        /\ result.ok
        /\ Returned("can_reveal_position")'
        /\ result'.query.pos = result.query.pos
        /\ result.query.solved_positions \subseteq result'.query.solved_positions) =>
            result'.ok]_vars

\* A position under a REQUIRES and an ENABLES relationship that is
\* revealable for the solved set of the call and for a proper subset of it,
\* and not revealable for the empty set.
C38_Witness ==
    /\ Returned("can_reveal_position")
    /\ result.ok
    /\ \E r \in OfKind("requires") : result.query.pos \in Targets(r)
    /\ \E r \in OfKind("enables") : result.query.pos \in Targets(r)
    /\ \E S \in SUBSET result.query.solved_positions :
           /\ S # result.query.solved_positions
           /\ can_reveal_position(relationship_manager, result.query.pos, S)
    /\ ~can_reveal_position(relationship_manager, result.query.pos, {})

\* C39: in a game played through start_new_game and make_guess, whenever
\* the board is complete game_active is false, it stays false in every step
\* that is not start_new_game, and a make_guess made then returns success =
\* false and changes neither the board nor the score.
C39_CompletedGameStaysOver ==
    /\ []((has_board /\ solved_count = total_cells) => ~game_active)
    /\ [][(/\ has_board
           /\ solved_count = total_cells
           /\ result'.op # "start_new_game") =>
               /\ ~game_active'
               /\ (result'.op = "make_guess" =>
                      /\ ~result'.ok
                      /\ UNCHANGED <<board_vars, score>>)]_vars

\* A guess at a cell of a completed board was refused because the game is
\* not active.
C39_Witness ==
    /\ Returned("make_guess")
    /\ ~result.ok
    /\ result.msg = "not_active"
    /\ result.target = "solved"
    /\ has_board
    /\ solved_count = total_cells
    /\ score > 0

====
